---- MODULE Spec2Model ----
(***************************************************************************)
(* The stack machine of pkg/proc/eval.go (evalStack) and the part of the   *)
(* call-injection protocol it drives: eval, resume, run, executeOp and     *)
(* result.  One action is one call of eval, resume or result by the        *)
(* caller; the opcode loop inside run is computed by RunLoop.              *)
(***************************************************************************)
EXTENDS Integers, Sequences, FiniteSets, TLC

\* ------------------------------------------------------------------ bounds
\* longest program built freely from the opcode alphabet
MaxOps == 2
\* largest number of arguments of a compiled call
MaxArgs == 3
\* resume calls the caller makes before it gives up (its deadline)
MaxResume == 5

\* ------------------------------------------------------- program constants
\* scope.BinInfo.Arch.PtrSize() on amd64
PtrSize == 8

\* scope.BinInfo.Arch.Name: the three the undo switch knows and one it does not
Archs == {"amd64", "arm64", "ppc64le", "386"}

\* threads of the target; 0 stands for a nil Thread
Threads == {1, 2}

\* register file of a thread before the evaluation, and the callee entry
InitRegs == [pc |-> 16, sp |-> 64, lr |-> 24]
CalleeEntry == [pc |-> 32]

\* the nil error
NoErr == <<>>

\* fncall.undoInjection == nil
NoUndo == [set |-> FALSE, oldpc |-> 0, oldlr |-> 0]

\* -------------------------------------------------------------- the program
Op(kind, ok, n) == [kind |-> kind, ok |-> ok, n |-> n]

\* The opcodes of evalop that executeOp dispatches on (those the
\* call-injection protocol interacts with), each with the outcome its
\* operands give it in the target: ok = FALSE is a symbol that is not found
\* or an argument that cannot be copied.  "Unknown" is an Op type executeOp
\* has no case for.  For CallInjectionAllocString ok says whether the phase
\* needs the target to run allocator code.
OpSet ==
  { Op("PushConst", TRUE, 0), Op("Pop", TRUE, 0), Op("PushLocal", FALSE, 0),
    Op("Unknown", TRUE, 0),
    Op("CallInjectionStart", TRUE, 1),
    Op("CallInjectionCopyArg", TRUE, 0), Op("CallInjectionCopyArg", FALSE, 0),
    Op("CallInjectionSetTarget", TRUE, 0),
    Op("CallInjectionComplete", TRUE, 0),
    Op("CallInjectionAllocString", TRUE, 0),
    Op("CallInjectionAllocString", FALSE, 0) }

RECURSIVE SeqsUpTo(_, _)
SeqsUpTo(S, n) ==
  IF n = 0 THEN {<<>>}
  ELSE LET R == SeqsUpTo(S, n - 1) IN
       R \cup {Append(p, x) : p \in {q \in R : Len(q) = n - 1}, x \in S}

RECURSIVE ArgOps(_, _, _)
\* push and copy arguments i .. n-1 in declaration order; argument bad fails
ArgOps(i, n, bad) ==
  IF i >= n THEN <<>>
  ELSE <<Op("PushConst", TRUE, 0), Op("CallInjectionCopyArg", i # bad, i)>>
       \o ArgOps(i + 1, n, bad)

\* the program of f(a0, .., an-1): start, copy each argument, set the
\* target, complete
CallOps(n, bad) ==
  <<Op("CallInjectionStart", TRUE, n)>> \o ArgOps(0, n, bad)
  \o <<Op("CallInjectionSetTarget", TRUE, 0), Op("CallInjectionComplete", TRUE, 0)>>

\* the program of f(g(a)): the argument of f is itself an injected call
NestedOps(bad) ==
  <<Op("CallInjectionStart", TRUE, 1)>> \o CallOps(1, bad)
  \o <<Op("CallInjectionCopyArg", TRUE, 0),
       Op("CallInjectionSetTarget", TRUE, 0), Op("CallInjectionComplete", TRUE, 0)>>

\* a program with the opcode at position i replaced by x
Damage(p, i, x) == [p EXCEPT ![i] = x]

\* what a damaged program has in the place of an opcode: an Op type
\* executeOp has no case for, a symbol that is not found, a pop too many
Damages == {Op("Unknown", TRUE, 0), Op("PushLocal", FALSE, 0), Op("Pop", TRUE, 0)}

CompiledPrograms ==
  {CallOps(n, bad) : n \in 0..MaxArgs, bad \in -1..(MaxArgs - 1)}
  \cup {NestedOps(bad) : bad \in {-1, 0}}

\* the compiled programs in which every argument copy succeeds
SoundPrograms == {CallOps(n, -1) : n \in 0..MaxArgs} \cup {NestedOps(-1)}

\* the programs eval is given: every short sequence of opcodes, the compiled
\* calls, and the compiled calls damaged at one position or cut short
Programs ==
  SeqsUpTo(OpSet, MaxOps) \cup CompiledPrograms
  \cup UNION {{Damage(p, i, x) : i \in DOMAIN p, x \in Damages} : p \in SoundPrograms}
  \cup UNION {{SubSeq(p, 1, n) : n \in 1..Len(p)} : p \in SoundPrograms}

\* ---------------------------------------------------------------- the state
VARIABLES
  ops,                    \* evalStack.ops, the program being executed
  arch,                   \* scope.BinInfo.Arch.Name
  hasCallCtx,             \* scope.callCtx != nil
  opidx,                  \* evalStack.opidx
  stack,                  \* evalStack.stack
  fncalls,                \* evalStack.fncalls
  callInjectionContinue,  \* evalStack.callInjectionContinue
  err,                    \* evalStack.err (NoErr is nil)
  lastRetiredFncall,      \* evalStack.lastRetiredFncall (0 is nil)
  curthread,              \* evalStack.curthread
  offs,                   \* evalStack.spoff, bpoff, fboff
  scopeG,                 \* scope.g
  scopeRegs,              \* scope.Regs: SP, BP, FrameBase, CFA
  injectionThread,        \* scope.callCtx.injectionThread (0 is nil)
  threadRegs,             \* the register file of each thread of the target
  nextId,                 \* identity of the next functionCallState allocated
  phase,                  \* where the caller is: new, suspended, returned, done, panicked
  log,                    \* what the last call of eval/resume did, in order
  nexec,                  \* number of opcodes executed so far
  nresume,                \* number of resume calls made so far
  undoCount,              \* number of resumes requested by the undo path
  kErr,                   \* open injections when the error appeared (-1: no error yet)
  execAfterErr,           \* an opcode was executed with stack.err already set
  res,                    \* the Value result handed to the caller ("none" before)
  pin,                    \* operands of the Variable/scope operation under study
  pout,                   \* what that operation returned
  pcall                   \* which operation was applied ("none" before)

vars == <<ops, arch, hasCallCtx, opidx, stack, fncalls, callInjectionContinue,
          err, lastRetiredFncall, curthread, offs, scopeG, scopeRegs,
          injectionThread, threadRegs, nextId, phase, log, nexec, nresume,
          undoCount, kErr, execAfterErr, res, pin, pout, pcall>>

\* the variables of the Variable/scope operations studied on their own
pureVars == <<pin, pout, pcall>>

\* the mutable part of the evaluation as one record, for the operators below
State ==
  [opidx |-> opidx, stack |-> stack, fncalls |-> fncalls,
   callInjectionContinue |-> callInjectionContinue, err |-> err,
   lastRetiredFncall |-> lastRetiredFncall, curthread |-> curthread,
   offs |-> offs, scopeG |-> scopeG, scopeRegs |-> scopeRegs,
   injectionThread |-> injectionThread, threadRegs |-> threadRegs,
   nextId |-> nextId, log |-> <<>>, nexec |-> nexec, undoCount |-> undoCount,
   execAfterErr |-> execAfterErr, panicked |-> FALSE]

\* an entry of the log: what was done, its operand, and whether it took effect
Ev(name, arg, ok) == [ev |-> name, arg |-> arg, ok |-> ok]
Logged(st, name, arg) == [st EXCEPT !.log = Append(@, Ev(name, arg, TRUE))]

\* evalStack.push / pop / peek and fncallPush / fncallPop / fncallPeek
push(st, v) == [st EXCEPT !.stack = Append(@, v)]
pop(st) == [st EXCEPT !.stack = SubSeq(@, 1, Len(@) - 1)]
fncallPush(st, f) == [st EXCEPT !.fncalls = Append(@, f)]
fncallPop(st) == [st EXCEPT !.fncalls = SubSeq(@, 1, Len(@) - 1)]
fncallPeek(st) == st.fncalls[Len(st.fncalls)]

\* faulty variant of Recovered: executeOp has no deferred recover and the
\* panic goes up through run to the caller
Recovered_Propagates(st) ==
  [Logged(st, "panic", st.opidx) EXCEPT !.panicked = TRUE]

\* the deferred recover of executeOp: the panic becomes stack.err and the
\* rest of executeOp, the increment of opidx included, is skipped
Recovered(st) ==
  [Logged(st, "panic", st.opidx)
     EXCEPT !.err = <<"internal debugger error: recovered">>]

\* stack.opidx++ at the end of executeOp
\* faulty variant of Advance: the opcode after the next one is skipped
Advance_SkipsOne(st) == [st EXCEPT !.opidx = @ + 2]

\* stack.opidx++ at the end of executeOp
Advance(st) == [st EXCEPT !.opidx = @ + 1]

\* Thread register writes; a write the thread refuses leaves the register
setReg(st, t, r, v, fails) ==
  LET s == [st EXCEPT !.log = Append(@, Ev(r, v, ~fails))] IN
  IF fails THEN s ELSE [s EXCEPT !.threadRegs[t][r] = v]

\* scope.evalCallInjectionStart
evalCallInjectionStart(st, op) ==
  IF ~hasCallCtx
  THEN [st EXCEPT !.err = <<"call injection not allowed">>]
  ELSE [fncallPush(st, [id |-> st.nextId, undoInjection |-> NoUndo,
                        err |-> NoErr, nformal |-> op.n, copied |-> <<>>])
          EXCEPT !.nextId = @ + 1]

\* scope.evalCallInjectionSetTarget
evalCallInjectionSetTarget(st) ==
  LET t == st.curthread
      r == st.threadRegs[t]
      n == Len(st.fncalls)
      s1 == [st EXCEPT !.fncalls[n].undoInjection =
                         [set |-> TRUE, oldpc |-> r.pc, oldlr |-> r.lr]]
      s2 == CASE arch = "amd64" -> setReg(s1, t, "sp", r.sp - PtrSize, FALSE)
              [] arch \in {"arm64", "ppc64le"} -> setReg(s1, t, "lr", r.pc, FALSE)
              [] OTHER -> s1
      s3 == setReg(s2, t, "pc", CalleeEntry.pc, FALSE)
  IN [s3 EXCEPT !.callInjectionContinue = TRUE]

\* scope.allocString: a phase that needs the target to run allocator code
\* opens an injected call of the allocator and asks for the target to be
\* resumed; its result is stored in stack.callInjectionContinue
allocString(st, op) ==
  IF ~op.ok THEN [st EXCEPT !.callInjectionContinue = FALSE]
  ELSE IF ~hasCallCtx
  THEN [st EXCEPT !.err = <<"call injection not allowed">>,
                  !.callInjectionContinue = FALSE]
  ELSE [fncallPush(st, [id |-> st.nextId, undoInjection |-> NoUndo,
                        err |-> NoErr, nformal |-> 0, copied |-> <<>>])
          EXCEPT !.nextId = @ + 1, !.callInjectionContinue = TRUE]

\* funcCallCopyOneArg: the error it returns (NoErr when the argument was
\* written to its slot)
funcCallCopyOneArg(op) ==
  IF op.ok THEN NoErr ELSE <<"can not convert argument">>

\* faulty variant of execCopyArg: the error of funcCallCopyOneArg is dropped
execCopyArg_DropsErr(st, op) ==
  IF st.fncalls = <<>> THEN Recovered(st)
  ELSE IF st.stack = <<>> THEN Recovered(st)
  ELSE IF op.n >= fncallPeek(st).nformal THEN Recovered(pop(st))
  ELSE Advance(pop(st))

\* executeOp, case *evalop.CallInjectionCopyArg
execCopyArg(st, op) ==
  IF st.fncalls = <<>> THEN Recovered(st)
  ELSE IF st.stack = <<>> THEN Recovered(st)
  ELSE IF op.n >= fncallPeek(st).nformal THEN Recovered(pop(st))
  ELSE LET e == funcCallCopyOneArg(op)
           n == Len(st.fncalls)
           s1 == [pop(st) EXCEPT !.err = e]
       IN Advance(IF e = NoErr
                  THEN [Logged(s1, "copyArg", op.n)
                          EXCEPT !.fncalls[n].copied = Append(@, op.n)]
                  ELSE s1)

\* faulty variant of execComplete: callInjectionContinue is left clear
execComplete_NoSuspend(st) ==
  IF st.fncalls = <<>> THEN Recovered(st)
  ELSE Advance([st EXCEPT !.fncalls[Len(st.fncalls)].undoInjection = NoUndo])

\* executeOp, case *evalop.CallInjectionComplete
execComplete(st) ==
  IF st.fncalls = <<>> THEN Recovered(st)
  ELSE Advance([st EXCEPT !.fncalls[Len(st.fncalls)].undoInjection = NoUndo,
                          !.callInjectionContinue = TRUE])

\* evalStack.executeOp
executeOp(st0) ==
  LET op == ops[st0.opidx + 1]
      st == [Logged(st0, "exec", st0.opidx)
               EXCEPT !.nexec = @ + 1,
                      !.execAfterErr = @ \/ st0.err # NoErr]
  IN
  CASE op.kind = "PushConst" -> Advance(push(st, "const"))
    [] op.kind = "PushLocal" ->
         IF op.ok THEN Advance(push(st, "local"))
         ELSE Advance([st EXCEPT !.err = <<"could not find symbol value">>])
    [] op.kind = "Pop" ->
         IF st.stack = <<>> THEN Recovered(st) ELSE Advance(pop(st))
    [] op.kind = "CallInjectionStart" -> Advance(evalCallInjectionStart(st, op))
    [] op.kind = "CallInjectionSetTarget" ->
         IF st.fncalls = <<>> THEN Recovered(st)
         ELSE Advance(evalCallInjectionSetTarget(st))
    [] op.kind = "CallInjectionCopyArg" -> execCopyArg(st, op)
    [] op.kind = "CallInjectionComplete" -> execComplete(st)
    [] op.kind = "CallInjectionAllocString" -> Advance(allocString(st, op))
    [] OTHER ->
         Advance([st EXCEPT !.err = <<"internal debugger error: unknown eval opcode">>])

\* faulty variant of RunLoop: the loop goes on when stack.err is set
RECURSIVE RunLoop_IgnoresErr(_)
RunLoop_IgnoresErr(st) ==
  IF st.opidx < Len(ops)
  THEN LET s == executeOp([st EXCEPT !.callInjectionContinue = FALSE]) IN
       IF s.panicked THEN s
       ELSE IF s.callInjectionContinue
       THEN [s EXCEPT !.injectionThread = 0]
       ELSE IF s.opidx = st.opidx THEN s ELSE RunLoop_IgnoresErr(s)
  ELSE st

\* faulty variant of RunLoop: the loop does not return to the caller when an
\* opcode has set callInjectionContinue
RECURSIVE RunLoop_NoReturn(_)
RunLoop_NoReturn(st) ==
  IF st.opidx < Len(ops) /\ st.err = NoErr
  THEN LET s == executeOp([st EXCEPT !.callInjectionContinue = FALSE]) IN
       IF s.panicked THEN s ELSE RunLoop_NoReturn(s)
  ELSE [st EXCEPT !.injectionThread =
                    IF st.callInjectionContinue THEN 0 ELSE @]

\* the loop of run: execute opcodes until the program ends, an error is set
\* or an opcode requests the call-injection protocol
RECURSIVE RunLoop(_)
RunLoop(st) ==
  IF st.opidx < Len(ops) /\ st.err = NoErr
  THEN LET s == executeOp([st EXCEPT !.callInjectionContinue = FALSE]) IN
       IF s.panicked THEN s
       ELSE IF s.callInjectionContinue
       THEN [s EXCEPT !.injectionThread = 0]
       ELSE RunLoop(s)
  ELSE st

\* what the thread answers to the register accesses of one undo step
\* (at most one of them fails)
AllOk == [read |-> TRUE, first |-> TRUE, second |-> TRUE]
RegOutcomes ==
  {AllOk, [AllOk EXCEPT !.read = FALSE], [AllOk EXCEPT !.first = FALSE],
   [AllOk EXCEPT !.second = FALSE]}

\* faulty variant of undoCallOP: only the program counter is restored
undoCallOP_PCOnly(st, fncall, w) ==
  LET t == st.curthread IN
  CASE arch = "amd64" ->
         IF ~w.read THEN [st EXCEPT !.panicked = TRUE]
         ELSE setReg(st, t, "pc", fncall.undoInjection.oldpc, ~w.second)
    [] arch \in {"arm64", "ppc64le"} ->
         setReg(st, t, "pc", fncall.undoInjection.oldpc, ~w.second)
    [] OTHER -> [st EXCEPT !.panicked = TRUE]

\* faulty variant of undoCallOP: an unknown architecture is treated as one
\* with a link register
undoCallOP_NoDefault(st, fncall, w) ==
  LET t == st.curthread IN
  CASE arch = "amd64" ->
         IF ~w.read THEN [st EXCEPT !.panicked = TRUE]
         ELSE setReg(setReg(st, t, "sp", st.threadRegs[t].sp + PtrSize, ~w.first),
                     t, "pc", fncall.undoInjection.oldpc, ~w.second)
    [] OTHER ->
         setReg(setReg(st, t, "lr", fncall.undoInjection.oldlr, ~w.first),
                t, "pc", fncall.undoInjection.oldpc, ~w.second)

\* the switch on scope.BinInfo.Arch.Name in run: undo the callOP of
\* CallInjectionSetTarget on curthread.  The errors of Registers, setSP,
\* setLR and setPC are dropped by run.
undoCallOP(st, fncall, w) ==
  LET t == st.curthread IN
  CASE arch = "amd64" ->
         IF ~w.read THEN [st EXCEPT !.panicked = TRUE]
         ELSE setReg(setReg(st, t, "sp", st.threadRegs[t].sp + PtrSize, ~w.first),
                     t, "pc", fncall.undoInjection.oldpc, ~w.second)
    [] arch \in {"arm64", "ppc64le"} ->
         setReg(setReg(st, t, "lr", fncall.undoInjection.oldlr, ~w.first),
                t, "pc", fncall.undoInjection.oldpc, ~w.second)
    [] OTHER -> [st EXCEPT !.panicked = TRUE]

ErrStillActive ==
  <<"internal debugger error: eval program finished without error but call injections still active">>
ErrCouldNotUndo ==
  <<"internal debugger error: could not undo injected call during error recovery">>

\* faulty variant of runUndo: lastRetiredFncall is not looked at
runUndo_NoRetiredCheck(s, w) ==
  IF Len(s.fncalls) > 0
  THEN LET fncall == fncallPeek(s)
           s1 == IF fncall.undoInjection.set THEN undoCallOP(s, fncall, w) ELSE s
       IN IF s1.panicked THEN s1
          ELSE [Logged(Logged(s1, "lastRetired", fncall.id), "resumeTarget", 0)
                  EXCEPT !.lastRetiredFncall = fncall.id,
                         !.callInjectionContinue = TRUE,
                         !.injectionThread = 0,
                         !.undoCount = @ + 1]
  ELSE s

\* run, after the loop and the check for a program that ended with
\* injections still active: undo the innermost open injection
runUndo(s, w) ==
  IF Len(s.fncalls) > 0
  THEN LET fncall == fncallPeek(s) IN
       IF fncall.id = s.lastRetiredFncall
       THEN [s EXCEPT !.err = ErrCouldNotUndo \o @]
       ELSE LET s1 == IF fncall.undoInjection.set THEN undoCallOP(s, fncall, w) ELSE s IN
            IF s1.panicked THEN s1
            ELSE [Logged(Logged(s1, "lastRetired", fncall.id), "resumeTarget", 0)
                    EXCEPT !.lastRetiredFncall = fncall.id,
                           !.callInjectionContinue = TRUE,
                           !.injectionThread = 0,
                           !.undoCount = @ + 1]
  ELSE s

\* evalStack.run
run(st, w) ==
  LET s == RunLoop(st) IN
  IF s.panicked \/ s.callInjectionContinue THEN s
  ELSE IF s.err = NoErr /\ Len(s.fncalls) > 0
  THEN [s EXCEPT !.err = ErrStillActive]
  ELSE runUndo(s, w)

\* scope.frameOffset
FrameOffset == [cfa |-> 8]

\* the goroutines the target can be stopped on; hi is g.stack.hi
Gs == [ID : {1, 2}, Thread : Threads, Status : {"Grunning"}, hi : {200, 300}]

\* the registers of the scope for a goroutine whose stack ends at hi
AdjustedRegs(st, hi) ==
  [st.scopeRegs EXCEPT !.sp = st.offs.spoff + hi, !.bp = st.offs.bpoff + hi,
                       !.fb = st.offs.fboff + hi, !.cfa = FrameOffset.cfa + hi]

\* evalStack.eval
eval(st) ==
  LET s1 == [st EXCEPT !.offs = [spoff |-> st.scopeRegs.sp - st.scopeG.hi,
                                 bpoff |-> st.scopeRegs.bp - st.scopeG.hi,
                                 fboff |-> st.scopeRegs.fb - st.scopeG.hi]]
      s2 == IF s1.scopeG.Thread # 0 THEN [s1 EXCEPT !.curthread = s1.scopeG.Thread] ELSE s1
  IN run(s2, AllOk)

\* what funcCallStep finds when the target has stopped again: the protocol
\* wants the target resumed once more (cont), opcode execution continues
\* (neither), or the innermost injection is over (finished), possibly with
\* an error of the call (fail)
StepOutcomes ==
  { [finished |-> FALSE, cont |-> TRUE, fail |-> FALSE],
    [finished |-> FALSE, cont |-> FALSE, fail |-> FALSE],
    [finished |-> TRUE, cont |-> FALSE, fail |-> FALSE],
    [finished |-> TRUE, cont |-> FALSE, fail |-> TRUE] }

\* funcCallStep
funcCallStep(st, step) ==
  LET n == Len(st.fncalls) IN
  IF step.cont THEN [st EXCEPT !.callInjectionContinue = TRUE]
  ELSE IF step.fail THEN [st EXCEPT !.fncalls[n].err = <<"call failed">>]
  ELSE st

\* funcCallFinish
funcCallFinish(st) ==
  LET fncall == fncallPeek(st)
      s == Logged(fncallPop(st), "finish", fncall.id)
  IN IF fncall.err # NoErr
     THEN IF s.err = NoErr THEN [s EXCEPT !.err = fncall.err] ELSE s
     ELSE IF s.err = NoErr THEN push(s, "ret") ELSE s

\* faulty variant of resume: the scope adopts whatever goroutine the target
\* stopped on
resume_AdoptsAny(st, g, step, w) ==
  LET s0 == Logged(Logged([st EXCEPT !.callInjectionContinue = FALSE],
                          "resume.g.ID", g.ID), "resume.g.Thread", g.Thread)
      s1 == [s0 EXCEPT !.scopeG = g]
      s2 == [s1 EXCEPT !.scopeRegs = AdjustedRegs(s1, s1.scopeG.hi),
                       !.curthread = g.Thread]
      s3 == funcCallStep(s2, step)
      s4 == IF step.finished THEN funcCallFinish(s3) ELSE s3
  IN IF s4.callInjectionContinue
     THEN [s4 EXCEPT !.injectionThread = 0]
     ELSE run(s4, w)

\* evalStack.resume
resume(st, g, step, w) ==
  LET s0 == Logged(Logged([st EXCEPT !.callInjectionContinue = FALSE],
                          "resume.g.ID", g.ID), "resume.g.Thread", g.Thread)
      s1 == IF g.ID = s0.scopeG.ID
            THEN [s0 EXCEPT !.scopeG = g]
            ELSE [Logged(s0, "injectionThread", g.Thread)
                    EXCEPT !.scopeG.Thread = 0, !.scopeG.Status = "Gwaiting",
                           !.injectionThread = g.Thread]
      s2 == [s1 EXCEPT !.scopeRegs = AdjustedRegs(s1, s1.scopeG.hi),
                       !.curthread = g.Thread]
      s3 == funcCallStep(s2, step)
      s4 == IF step.finished THEN funcCallFinish(s3) ELSE s3
  IN IF s4.callInjectionContinue
     THEN [s4 EXCEPT !.injectionThread = 0]
     ELSE run(s4, w)

\* faulty variant of result: the top of a stack of any size is the result
result_TopOfAny(st) ==
  [r |-> IF Len(st.stack) >= 1 THEN st.stack[Len(st.stack)] ELSE "nil",
   err |-> st.err]

\* evalStack.result: the Value and the error handed to the caller
result(st) ==
  [r |-> IF Len(st.stack) = 1 THEN st.stack[1] ELSE "nil",
   err |-> IF Len(st.stack) > 1 /\ st.err = NoErr
           THEN <<"internal debugger error: wrong stack size at end">>
           ELSE st.err]

\* ------------------------------------------------------------- the actions
Commit(s) ==
  /\ opidx' = s.opidx
  /\ stack' = s.stack
  /\ fncalls' = s.fncalls
  /\ callInjectionContinue' = s.callInjectionContinue
  /\ err' = s.err
  /\ lastRetiredFncall' = s.lastRetiredFncall
  /\ curthread' = s.curthread
  /\ offs' = s.offs
  /\ scopeG' = s.scopeG
  /\ scopeRegs' = s.scopeRegs
  /\ injectionThread' = s.injectionThread
  /\ threadRegs' = s.threadRegs
  /\ nextId' = s.nextId
  /\ log' = s.log
  /\ nexec' = s.nexec
  /\ undoCount' = s.undoCount
  /\ execAfterErr' = s.execAfterErr
  /\ phase' = IF s.panicked THEN "panicked"
              ELSE IF s.callInjectionContinue THEN "suspended" ELSE "returned"
  /\ kErr' = IF kErr = -1 /\ s.err # NoErr THEN Len(s.fncalls) ELSE kErr

\* the evalStack and the scope as eval finds them
InitEval ==
  /\ opidx = 0
  /\ stack = <<>>
  /\ fncalls = <<>>
  /\ callInjectionContinue = FALSE
  /\ err = NoErr
  /\ lastRetiredFncall = 0
  /\ curthread = 0
  /\ offs = [spoff |-> 0, bpoff |-> 0, fboff |-> 0]
  /\ scopeG = [ID |-> 1, Thread |-> 1, Status |-> "Grunning", hi |-> 200]
  /\ scopeRegs = [pc |-> InitRegs.pc, sp |-> 136, bp |-> 152, fb |-> 160, cfa |-> 208]
  /\ injectionThread = 0
  /\ threadRegs = [t \in Threads |-> InitRegs]
  /\ nextId = 1
  /\ phase = "new"
  /\ log = <<>>
  /\ nexec = 0
  /\ nresume = 0
  /\ undoCount = 0
  /\ kErr = -1
  /\ execAfterErr = FALSE
  /\ res = "none"

Init ==
  /\ ops \in Programs
  /\ arch \in Archs
  /\ hasCallCtx \in BOOLEAN
  /\ InitEval
  /\ pin = <<>>
  /\ pout = <<>>
  /\ pcall = "none"

\* the caller starts the evaluation
Eval ==
  /\ phase = "new"
  /\ Commit(eval(State))
  /\ UNCHANGED <<ops, arch, hasCallCtx, nresume, res, pureVars>>

\* the target was resumed and has stopped on goroutine g: the caller calls
\* resume
Resume ==
  /\ phase = "suspended"
  /\ nresume < MaxResume
  /\ \E g \in Gs, step \in StepOutcomes, w \in RegOutcomes :
       /\ (err # NoErr => ~step.cont)
       /\ Commit(resume(State, g, step, w))
  /\ nresume' = nresume + 1
  /\ UNCHANGED <<ops, arch, hasCallCtx, res, pureVars>>

\* the caller reads the result
Result ==
  /\ phase = "returned"
  /\ phase' = "done"
  /\ err' = result(State).err
  /\ res' = result(State).r
  /\ log' = <<Ev("result", Len(stack), TRUE)>>
  /\ UNCHANGED <<ops, arch, hasCallCtx, opidx, stack, fncalls,
                 callInjectionContinue, lastRetiredFncall, curthread, offs,
                 scopeG, scopeRegs, injectionThread, threadRegs, nextId, nexec,
                 nresume, undoCount, kErr, execAfterErr, pureVars>>

Next == Eval \/ Resume \/ Result

Spec == Init /\ [][Next]_vars

\* ------------------------------------------------------- helpers of claims
\* the log entries that are register writes of a thread
IsRegWrite(e) == e.ev \in {"pc", "sp", "lr"}
RegWrites == {i \in DOMAIN log : IsRegWrite(log[i])}

\* the last call of eval/resume ran the undo step and requested a resume
UndoRequested == \E i \in DOMAIN log : log[i].ev = "resumeTarget"

\* the kind of the opcode an "exec" entry of the log executed
ExecKind(e) == ops[e.arg + 1].kind

SupportedArchs == {"amd64", "arm64", "ppc64le"}

\* the errors that are internal-consistency errors of the interpreter
InternalErrs ==
  { <<"internal debugger error: unknown eval opcode">>,
    <<"internal debugger error: recovered">>,
    ErrStillActive }

\* C1: once the error is set with k >= 1 injections open, run/resume returns
\* to the caller with callInjectionContinue unset only after every open
\* injection has been retired.
C1_AllRetiredBeforeReturn ==
  (phase = "returned" /\ kErr >= 1) => fncalls = <<>>

C3_InternalErrorsUndo ==
  (phase = "returned" /\ err \in InternalErrs /\ kErr >= 1) => undoCount = kErr

\* C4: when the undo path finds the injection it retired last still
\* innermost, it writes no register, requests no resume and wraps the error.
C4_DoubleUndoFatal ==
  [][ ( /\ phase = "suspended" /\ err # NoErr
        /\ fncalls' # <<>>
        /\ fncalls'[Len(fncalls')].id = lastRetiredFncall )
      => /\ err' = ErrCouldNotUndo \o err
         /\ ~callInjectionContinue'
         /\ phase' = "returned"
         /\ threadRegs' = threadRegs
         /\ \A i \in DOMAIN log' : ~IsRegWrite(log'[i]) /\ log'[i].ev # "resumeTarget"
         /\ undoCount' = undoCount ]_vars

\* C4 witness: an evaluation that ended with the wrapped error.
C4_Witness ==
  /\ phase = "returned" /\ Len(err) = 2 /\ <<Head(err)>> = ErrCouldNotUndo
  /\ fncalls # <<>> /\ fncalls[Len(fncalls)].id = lastRetiredFncall

\* the last n entries of the log
LogTail(l, n) == SubSeq(l, Len(l) - n + 1, Len(l))

\* C5: the undo step of an injection with an undo record writes the
\* return-address state (amd64: SP plus one pointer; arm64, ppc64le: LR to
\* oldlr) and then PC to oldpc, before it marks the injection retired and
\* requests the resume; an injection without an undo record gets no write.
C5_UndoRestoresRegisters ==
  [][ undoCount' = undoCount + 1 =>
        LET f == fncalls'[Len(fncalls')]
            t == curthread'
            u == f.undoInjection
            done == <<Ev("lastRetired", f.id, TRUE), Ev("resumeTarget", 0, TRUE)>>
        IN IF u.set
           THEN /\ Len(log') >= 4
                /\ Cardinality({i \in DOMAIN log' : IsRegWrite(log'[i])}) = 2
                /\ LET w1 == log'[Len(log') - 3]
                       w2 == log'[Len(log') - 2]
                   IN /\ arch = "amd64" =>
                           w1.ev = "sp" /\ w1.arg = threadRegs[t].sp + PtrSize
                      /\ arch # "amd64" => w1.ev = "lr" /\ w1.arg = u.oldlr
                      /\ w2.ev = "pc" /\ w2.arg = u.oldpc
                      /\ (w1.ok /\ w2.ok) =>
                           /\ threadRegs'[t].pc = u.oldpc
                           /\ arch = "amd64" => threadRegs'[t].sp = threadRegs[t].sp + PtrSize
                           /\ arch # "amd64" => threadRegs'[t].lr = u.oldlr
                /\ LogTail(log', 2) = done
                /\ arch \in SupportedArchs
           ELSE /\ \A i \in DOMAIN log' : ~IsRegWrite(log'[i])
                /\ threadRegs' = threadRegs
                /\ LogTail(log', 2) = done ]_vars

\* C5 witness: an undo step has just restored the registers CallInjectionSetTarget
\* had rewritten on the current thread.
C5_Witness ==
  /\ phase = "suspended" /\ UndoRequested
  /\ fncalls[Len(fncalls)].undoInjection.set
  /\ Cardinality(RegWrites) = 2
  /\ threadRegs[curthread] = InitRegs

\* C6: no undo step leaves the registers half restored (one of the two
\* writes refused, the other made) and goes on to retire the injection and
\* request the resume.
C6_UndoAllOrNothing ==
  UndoRequested =>
    \A i, j \in RegWrites : log[i].ok = log[j].ok

\* C7: an evaluation that returns with an error has requested exactly one
\* undo resume for each injection that was open when the error appeared.
C7_UndoBounded ==
  (phase = "returned" /\ err # NoErr /\ kErr >= 0) => undoCount = kErr

\* C8: when copying the second of three arguments fails,
\* CallInjectionSetTarget is not executed, no register is written, one undo
\* cycle follows and the thread is at its original program counter.
C8_SecondArgCopyFails ==
  (ops = CallOps(3, 1) /\ hasCallCtx) =>
     /\ \A i \in DOMAIN log : log[i].ev = "exec" => ExecKind(log[i]) # "CallInjectionSetTarget"
     /\ opidx <= 5
     /\ \A i \in DOMAIN fncalls : ~fncalls[i].undoInjection.set
     /\ \A t \in Threads : threadRegs[t] = InitRegs
     /\ undoCount <= 1
     /\ phase \in {"new", "suspended", "returned", "done"}
     /\ phase \in {"returned", "done"} => undoCount = 1 /\ err # NoErr
     /\ (phase = "suspended") => (undoCount = 1 /\ UndoRequested /\ nresume = 0)

\* C8 witness: the call with the failing second argument has been undone.
C8_Witness ==
  /\ ops = CallOps(3, 1) /\ hasCallCtx
  /\ phase = "returned" /\ undoCount = 1 /\ fncalls = <<>>
  /\ err = <<"can not convert argument">>

\* C9: on an architecture the undo switch does not know, undoing an
\* injection that has an undo record writes no register and aborts the
\* evaluation without requesting a resume.
C9_UnsupportedArchFailsFast ==
  [][ ( /\ arch \notin SupportedArchs
        /\ phase \in {"new", "suspended"}
        /\ err' # NoErr /\ err' # ErrStillActive
        /\ fncalls' # <<>>
        /\ fncalls'[Len(fncalls')].undoInjection.set
        /\ fncalls'[Len(fncalls')].id # lastRetiredFncall )
      => /\ phase' = "panicked"
         /\ ~callInjectionContinue'
         /\ threadRegs' = threadRegs
         /\ \A i \in DOMAIN log' : ~IsRegWrite(log'[i]) /\ log'[i].ev # "resumeTarget"
         /\ undoCount' = undoCount
         /\ lastRetiredFncall' = lastRetiredFncall ]_vars

\* C9 witness: the evaluation was aborted in the undo step on 386.
C9_Witness ==
  /\ arch = "386" /\ phase = "panicked"
  /\ fncalls # <<>> /\ fncalls[Len(fncalls)].undoInjection.set

\* C10 as stated: after CallInjectionComplete has executed the suspend flag
\* is clear and opcode stepping goes on.
C10_CompleteClearsSuspend ==
  \A i \in DOMAIN log :
    (log[i].ev = "exec" /\ ExecKind(log[i]) = "CallInjectionComplete" /\ err = NoErr)
      => ~callInjectionContinue

\* C10 amended: CallInjectionComplete clears the undo record of the
\* innermost open injection and sets callInjectionContinue, so run returns
\* to the caller at once, with opidx past the opcode.
C10_CompleteSuspends ==
  \A i \in DOMAIN log :
    (log[i].ev = "exec" /\ ExecKind(log[i]) = "CallInjectionComplete" /\ err = NoErr)
      => /\ i = Len(log)
         /\ callInjectionContinue
         /\ phase = "suspended"
         /\ opidx = log[i].arg + 1
         /\ fncalls # <<>>
         /\ fncalls[Len(fncalls)].undoInjection = NoUndo

\* C10 witness: CallInjectionComplete has just cleared an undo record that
\* CallInjectionSetTarget had made.
C10_Witness ==
  /\ log # <<>> /\ log[Len(log)].ev = "exec"
  /\ ExecKind(log[Len(log)]) = "CallInjectionComplete"
  /\ err = NoErr /\ fncalls # <<>>
  /\ threadRegs[curthread].pc = CalleeEntry.pc

\* ------------------------------------------------------------ C11 .. C14
\* the opcodes executed by the last call of eval/resume, as log positions
Execs == {i \in DOMAIN log : log[i].ev = "exec"}
LastExec == CHOOSE i \in Execs : \A j \in Execs : j <= i

PureKinds == {"PushConst", "Pop", "PushLocal", "Unknown"}
CallInjectionKinds ==
  {"CallInjectionStart", "CallInjectionCopyArg", "CallInjectionSetTarget",
   "CallInjectionComplete", "CallInjectionAllocString"}

\* the opcode executed at log position i asked for the target to be resumed
SetsContinue(i) ==
  LET op == ops[log[i].arg + 1]
      panics == i < Len(log) /\ log[i + 1].ev = "panic"
  IN \/ op.kind \in {"CallInjectionSetTarget", "CallInjectionComplete"} /\ ~panics
     \/ op.kind = "CallInjectionAllocString" /\ op.ok /\ hasCallCtx

\* C11: eval/resume hand control back with callInjectionContinue set only
\* when the last opcode executed was a call-injection opcode, when the
\* call-injection step asked to continue (no opcode was executed), or when
\* the undo path asked for a resume; a pure opcode never leaves the flag
\* set; and an opcode that sets the flag is the last one executed before
\* run returns.
C11_SuspendOnlyAtInjection ==
  /\ callInjectionContinue =>
        /\ phase = "suspended"
        /\ \/ UndoRequested
           \/ Execs # {} /\ ExecKind(log[LastExec]) \in CallInjectionKinds
                         /\ SetsContinue(LastExec)
           \/ Execs = {} /\ nresume > 0
  /\ \A i \in Execs :
        /\ (ExecKind(log[i]) \in PureKinds /\ i = LastExec /\ ~UndoRequested)
             => ~callInjectionContinue
        /\ SetsContinue(i) =>
             /\ i = LastExec
             /\ callInjectionContinue
             /\ ~UndoRequested
             /\ opidx = log[i].arg + 1

\* C11 witness: after a resume run went on and suspended again, at a
\* CallInjectionAllocString that needs the allocator.
C11_Witness ==
  /\ callInjectionContinue /\ nresume >= 1 /\ Execs # {}
  /\ ExecKind(log[LastExec]) = "CallInjectionAllocString"
  /\ stack # <<>>

\* C12: the scope's goroutine never changes its ID.  A resume on a goroutine
\* with the same ID makes that goroutine the scope's goroutine; a resume on
\* a goroutine with another ID keeps the scope's goroutine, without thread
\* and with status Gwaiting, and records the new goroutine's thread as the
\* injection thread; in both cases curthread becomes the thread of the
\* goroutine resumed on and no register of another thread is written.
C12_GoroutineIdentity ==
  [][/\ scopeG'.ID = scopeG.ID
     /\ nresume' = nresume + 1 =>
          LET id == log'[1].arg
              th == log'[2].arg
          IN /\ log'[1].ev = "resume.g.ID" /\ log'[2].ev = "resume.g.Thread"
             /\ curthread' = th
             /\ \A t \in Threads \ {th} : threadRegs'[t] = threadRegs[t]
             /\ \A i \in DOMAIN log' :
                  IsRegWrite(log'[i]) /\ log'[i].ok
                    => threadRegs'[th][log'[i].ev] = log'[i].arg
                       \/ \E j \in DOMAIN log' :
                            j > i /\ log'[j].ev = log'[i].ev
             /\ id = scopeG.ID =>
                  /\ scopeG' \in Gs
                  /\ scopeG'.Thread = th
                  /\ injectionThread' = injectionThread
                  /\ \A i \in DOMAIN log' : log'[i].ev # "injectionThread"
             /\ id # scopeG.ID =>
                  /\ scopeG' = [scopeG EXCEPT !.Thread = 0,
                                              !.Status = "Gwaiting"]
                  /\ log'[3] = Ev("injectionThread", th, TRUE)
                  /\ injectionThread' \in {0, th}
    ]_vars

\* C12 witness: the target stopped on goroutine 2 running on thread 2, the
\* scope kept goroutine 1 as waiting, and the undo step wrote the registers
\* of thread 2.
C12_Witness ==
  /\ Len(log) >= 3 /\ log[1] = Ev("resume.g.ID", 2, TRUE)
  /\ log[2] = Ev("resume.g.Thread", 2, TRUE)
  /\ scopeG = [ID |-> 1, Thread |-> 0, Status |-> "Gwaiting", hi |-> 200]
  /\ curthread = 2
  /\ arch = "amd64" /\ threadRegs[2].sp = InitRegs.sp + PtrSize
  /\ threadRegs[1].pc = CalleeEntry.pc

ErrWrongStackSize == <<"internal debugger error: wrong stack size at end">>

\* C13: result hands back no Value for an empty operand stack and the one
\* Value of a stack of size 1; a larger stack gives no Value and, when no
\* error was set before, the error "wrong stack size at end"; an error set
\* before is handed back as it is.
C13_ResultByStackSize ==
  [][(phase = "returned" /\ phase' = "done") =>
       /\ stack' = stack
       /\ Len(stack) = 0 => res' = "nil"
       /\ Len(stack) = 1 => res' = stack[1]
       /\ Len(stack) > 1 => res' = "nil"
       /\ err # NoErr => err' = err
       /\ (err = NoErr /\ Len(stack) > 1) => err' = ErrWrongStackSize
       /\ (err = NoErr /\ Len(stack) <= 1) => err' = NoErr
    ]_vars

\* C13 witness: result was read off a stack of two Values left by a
\* program that set no error.
C13_Witness ==
  /\ phase = "done" /\ Len(stack) = 2 /\ res = "nil"
  /\ err = ErrWrongStackSize

\* the panics raised inside executeOp by the last call of eval/resume
PanicAt == {i \in DOMAIN log : log[i].ev = "panic"}

\* C14: a panic raised by an opcode (pop or peek of an empty operand stack,
\* peek of an empty injection stack) does not leave run as a panic: it is
\* stored in stack.err as an internal debugger error, no further opcode is
\* executed, opidx stays on the opcode, and run goes on to its termination
\* path: it returns when no injection is open and runs the undo step when
\* one is.
C14_PanicRecovered ==
  PanicAt # {} =>
    /\ Cardinality(PanicAt) = 1
    /\ err = <<"internal debugger error: recovered">>
    /\ Execs # {} /\ PanicAt = {LastExec + 1}
    /\ opidx = log[LastExec].arg
    /\ IF fncalls = <<>>
       THEN phase = "returned" /\ ~UndoRequested
       ELSE \/ phase = "suspended" /\ UndoRequested
            \/ /\ phase = "panicked"
               /\ fncalls[Len(fncalls)].undoInjection.set
               /\ arch \notin {"arm64", "ppc64le"}

\* C14 witness: an opcode panicked while an injected call with a rewritten
\* PC was open, and the undo step ran on the recovered error.
C14_Witness ==
  /\ PanicAt # {} /\ fncalls # <<>> /\ UndoRequested
  /\ RegWrites # {}
  /\ err = <<"internal debugger error: recovered">>

\* ------------------------------------------------ Scope Resolver: Locals
\* the variables of the evaluation that the Variable/scope operations below
\* leave alone
evalCtl == <<ops, arch, hasCallCtx, fncalls, callInjectionContinue,
             lastRetiredFncall, curthread, offs, scopeG, scopeRegs,
             injectionThread, threadRegs, nextId, phase, log, nexec, nresume,
             undoCount, kErr, execAfterErr, res>>

\* an evaluation that has not started, for the operations studied on their own
IdleEval ==
  /\ ops = <<>> /\ arch = "amd64" /\ hasCallCtx = FALSE
  /\ InitEval

MaxEntries == 3

\* names are sequences of characters
goDictionaryName == <<".dict">>

\* an entry of reader.Variables: name, lexical depth, declaration line, DWARF
\* tag, DW_AT_variable_parameter, whether extractVarInfoFromEntry can parse
\* it, and (for an escaped variable) the address its pointer holds
VarEntry(name, depth, declLine, tag, isret, parses, ptrval) ==
  [name |-> name, depth |-> depth, declLine |-> declLine, tag |-> tag,
   isret |-> isret, parses |-> parses, ptrval |-> ptrval]

VarEntries ==
  {VarEntry(n, d, l, "Variable", FALSE, TRUE, 4096) :
     n \in {<<"x">>, <<"&", "x">>, <<"y">>}, d \in {1, 2}, l \in {1, 2}}
  \cup {VarEntry(n, 1, 1, "FormalParameter", FALSE, TRUE, 4096) :
          n \in {<<"x">>, <<"&", "x">>}}
  \cup {VarEntry(<<"y">>, 1, 1, "FormalParameter", TRUE, TRUE, 4096),
        VarEntry(goDictionaryName, 1, 1, "FormalParameter", FALSE, TRUE, 4096),
        VarEntry(<<"x">>, 1, 2, "Variable", FALSE, FALSE, 4096),
        VarEntry(<<"&", "x">>, 2, 2, "Variable", FALSE, TRUE, 0)}

\* what Locals and PushLocal are given: the scope (has it a function, what
\* entries are visible at its PC) and the name PushLocal looks up
LocalsInputs ==
  [hasFn : {TRUE}, entries : SeqsUpTo(VarEntries, MaxEntries),
   name : {<<"x">>, <<"y">>}]
  \cup {[hasFn |-> FALSE, entries |-> <<>>, name |-> <<"x">>]}

\* Locals, the loop over varEntries: vars and depths of the first i entries
RECURSIVE collectVars(_, _)
collectVars(entries, i) ==
  IF i = 0 THEN <<>>
  ELSE LET e == entries[i]
           prev == collectVars(entries, i - 1)
           isParam == e.tag = "FormalParameter"
       IN IF e.name = goDictionaryName \/ ~e.parses THEN prev
          ELSE Append(prev,
                 [Name |-> e.name, DeclLine |-> e.declLine,
                  Flags |-> IF ~isParam THEN {}
                            ELSE IF e.isret THEN {"ReturnArgument"}
                            ELSE {"Argument"},
                  Unreadable |-> NoErr,
                  depth |-> IF isParam /\ e.depth <= 1 THEN 0 ELSE e.depth,
                  ptrval |-> e.ptrval, entry |-> i])

\* variablesByDepthAndDeclLine.Less
Less(a, b) ==
  IF a.depth = b.depth THEN a.DeclLine < b.DeclLine ELSE a.depth < b.depth

\* sort.Stable(&variablesByDepthAndDeclLine{vars, depths})
RECURSIVE sortStable(_)
sortStable(s) ==
  IF s = <<>> THEN <<>>
  ELSE LET init == sortStable(SubSeq(s, 1, Len(s) - 1))
           v == s[Len(s)]
           k == Cardinality({i \in DOMAIN init : ~Less(v, init[i])})
       IN SubSeq(init, 1, k) \o <<v>> \o SubSeq(init, k + 1, Len(init))

\* faulty variant of shadowPass: the later occurrence of a name is the one
\* marked shadowed
RECURSIVE shadowPass_MarksLater(_, _, _)
shadowPass_MarksLater(lv, i, lvn) ==
  IF i > Len(lv) THEN lv
  ELSE LET v0 == lv[i]
           escaped == Len(v0.Name) > 1 /\ v0.Name[1] = "&"
           v == IF escaped
                THEN [v0 EXCEPT !.Name = Tail(@), !.Flags = @ \cup {"Escaped"}]
                ELSE v0
           w == IF v.Name \in DOMAIN lvn
                THEN [v EXCEPT !.Flags = @ \cup {"Shadowed"}] ELSE v
       IN shadowPass_MarksLater([lv EXCEPT ![i] = w], i + 1,
            [n \in DOMAIN lvn \cup {v.Name} |-> i])

\* Locals, the loop over the sorted lv from position i on; lvn[n] is the
\* position of the last variable seen that is named n
RECURSIVE shadowPass(_, _, _)
shadowPass(lv, i, lvn) ==
  IF i > Len(lv) THEN lv
  ELSE LET v0 == lv[i]
           escaped == Len(v0.Name) > 1 /\ v0.Name[1] = "&"
           v == IF escaped
                THEN [v0 EXCEPT !.Name = Tail(@), !.Flags = @ \cup {"Escaped"},
                                !.Unreadable =
                                  IF v0.ptrval = 0
                                  THEN <<"no address for escaped variable">>
                                  ELSE @]
                ELSE v0
           vs1 == [lv EXCEPT ![i] = v]
           vs2 == IF v.Name \in DOMAIN lvn
                  THEN [vs1 EXCEPT ![lvn[v.Name]].Flags = @ \cup {"Shadowed"}]
                  ELSE vs1
       IN shadowPass(vs2, i + 1,
            [n \in DOMAIN lvn \cup {v.Name} |->
               IF n = v.Name THEN i ELSE lvn[n]])

\* EvalScope.Locals
Locals(in) ==
  IF ~in.hasFn
  THEN [vars |-> <<>>, err |-> <<"unable to find function context">>]
  ELSE LET vs == collectVars(in.entries, Len(in.entries)) IN
       IF vs = <<>> THEN [vars |-> <<>>, err |-> NoErr]
       ELSE [vars |-> shadowPass(sortStable(vs), 1, [n \in {} |-> 0]),
             err |-> NoErr]

\* executeOp, case *evalop.PushLocal (frame 0), on the stack, error and opidx
execPushLocal(st, in) ==
  LET r == Locals(in)
      hits == {i \in DOMAIN r.vars :
                 r.vars[i].Name = in.name /\ "Shadowed" \notin r.vars[i].Flags}
  IN IF r.err # NoErr THEN [st EXCEPT !.err = r.err]
     ELSE IF hits = {}
     THEN [st EXCEPT !.err = <<"could not find symbol value for">> \o in.name,
                     !.opidx = @ + 1]
     ELSE [st EXCEPT !.stack =
                       Append(@, r.vars[CHOOSE i \in hits : \A j \in hits : i <= j]),
                     !.opidx = @ + 1]

InitLocals ==
  /\ IdleEval
  /\ pin \in LocalsInputs
  /\ pout = <<>>
  /\ pcall = "none"

\* a client lists the local variables of the scope
CallLocals ==
  /\ pcall = "none"
  /\ pout' = Locals(pin)
  /\ pcall' = "Locals"
  /\ UNCHANGED <<evalCtl, opidx, stack, err, pin>>

\* the interpreter executes PushLocal of pin.name in the scope
ExecPushLocal ==
  /\ pcall = "none"
  /\ LET s == execPushLocal([stack |-> stack, err |-> err, opidx |-> opidx], pin)
     IN stack' = s.stack /\ err' = s.err /\ opidx' = s.opidx
  /\ pout' = Locals(pin)
  /\ pcall' = "PushLocal"
  /\ UNCHANGED <<evalCtl, pin>>

NextLocals == CallLocals \/ ExecPushLocal

SpecLocals == InitLocals /\ [][NextLocals]_vars

\* the positions of the list of Locals that hold a variable named n
Named(vs, n) == {i \in DOMAIN vs : vs[i].Name = n}

\* C15: the list of Locals is sorted by (depth, declaration line); an entry
\* is marked shadowed exactly when a later entry has its name, so that for
\* every name the last entry is the only one not shadowed; PushLocal pushes
\* that last entry, and fails with "could not find symbol value" exactly
\* when no entry has the name.
C15_LastDeclarationWins ==
  (pcall \in {"Locals", "PushLocal"} /\ pout.err = NoErr) =>
    LET vs == pout.vars
        mine == Named(vs, pin.name)
    IN /\ \A i, j \in DOMAIN vs : i < j => ~Less(vs[j], vs[i])
       /\ \A i \in DOMAIN vs :
            "Shadowed" \in vs[i].Flags
              <=> \E j \in DOMAIN vs : j > i /\ vs[j].Name = vs[i].Name
       /\ pcall = "PushLocal" =>
            IF mine = {}
            THEN /\ err = <<"could not find symbol value for">> \o pin.name
                 /\ stack = <<>>
            ELSE /\ err = NoErr
                 /\ stack = <<vs[CHOOSE i \in mine : \A j \in mine : j <= i]>>

\* C15 witness: three entries named x, one of them escaped, are listed; the
\* two earlier ones are shadowed and PushLocal pushed the deepest one.
C15_Witness ==
  /\ pcall = "PushLocal" /\ pin.name = <<"x">> /\ Len(stack) = 1
  /\ Cardinality(Named(pout.vars, <<"x">>)) = 3
  /\ stack[1].depth = 2 /\ "Escaped" \in stack[1].Flags
  /\ stack[1].entry = 1
  /\ pout.vars[1].depth = 0 /\ "Shadowed" \in pout.vars[1].Flags

\* --------------------------------------------- Scope Resolver: findGlobal
MaxSyms == 2

\* A qualified symbol name "p1/p2.v" is the sequence of its path segments
\* followed by the symbol: <<"p1", "p2", "v">>.
QualifiedNames == {<<"a", "pkg", "F">>, <<"b", "pkg", "F">>, <<"pkg", "F">>}

\* sym == name || strings.HasSuffix(sym, "/"+name)
Matches(sym, name) ==
  \/ sym = name
  \/ /\ Len(sym) > Len(name)
     /\ SubSeq(sym, Len(sym) - Len(name) + 1, Len(sym)) = name

\* the sequences over S without repetition, of length n at most
DistinctSeqs(S, n) ==
  {q \in SeqsUpTo(S, n) : \A i, j \in DOMAIN q : i # j => q[i] # q[j]}

\* BinInfo.packageVars (readerr: reader.Next fails on the entry),
\* BinInfo.Functions (Entry 0: inlined) and BinInfo.consts in the order the
\* map iteration visits them (kind: the kind of the constant's type)
PackageVarSyms ==
  {[name |-> n, readerr |-> FALSE] : n \in QualifiedNames}
  \cup {[name |-> <<"pkg", "F">>, readerr |-> TRUE]}
FunctionSyms ==
  {[name |-> <<"a", "pkg", "F">>, Entry |-> 4096],
   [name |-> <<"b", "pkg", "F">>, Entry |-> 0],
   [name |-> <<"pkg", "F">>, Entry |-> 8192]}
ConstSyms ==
  {[name |-> <<"a", "pkg", "F">>, kind |-> "int"],
   [name |-> <<"b", "pkg", "F">>, kind |-> "uint"],
   [name |-> <<"pkg", "F">>, kind |-> "int"],
   [name |-> <<"pkg", "F">>, kind |-> "string"]}

\* what findGlobal is given: the names, BinInfo.PackageMap[pkgName] and the
\* three symbol tables
GlobalInputs ==
  [pkgName : {"pkg"}, varName : {"F"},
   PackageMap : DistinctSeqs({<<"a", "pkg">>, <<"b", "pkg">>}, MaxSyms),
   packageVars : DistinctSeqs(PackageVarSyms, MaxSyms),
   Functions : DistinctSeqs(FunctionSyms, MaxSyms),
   consts : DistinctSeqs(ConstSyms, MaxSyms)]

\* a *Variable result, nil included
GlobalVar(kind, name, note) == [kind |-> kind, name |-> name, note |-> note]
NilVar == GlobalVar("nil", <<>>, "")

\* the positions of a symbol table whose name matches
Hits(table, name) == {i \in DOMAIN table : Matches(table[i].name, name)}
FirstOf(S) == CHOOSE i \in S : \A j \in S : i <= j

\* faulty variant of findGlobalInternal: functions are searched first
findGlobalInternal_FunctionsFirst(in, name) ==
  LET vh == Hits(in.packageVars, name)
      fh == Hits(in.Functions, name)
      ch == Hits(in.consts, name)
  IN IF fh # {}
     THEN [v |-> GlobalVar("func", in.Functions[FirstOf(fh)].name, ""),
           err |-> NoErr]
     ELSE IF vh # {}
     THEN [v |-> GlobalVar("var", in.packageVars[FirstOf(vh)].name, ""),
           err |-> NoErr]
     ELSE IF ch # {}
     THEN [v |-> GlobalVar("const", name, in.consts[FirstOf(ch)].kind),
           err |-> NoErr]
     ELSE [v |-> NilVar, err |-> NoErr]

\* EvalScope.findGlobalInternal
findGlobalInternal(in, name) ==
  LET vh == Hits(in.packageVars, name)
      fh == Hits(in.Functions, name)
      ch == Hits(in.consts, name)
  IN IF vh # {}
     THEN LET pkgvar == in.packageVars[FirstOf(vh)] IN
          IF pkgvar.readerr
          THEN [v |-> NilVar, err |-> <<"dwarf reader error">>]
          ELSE [v |-> GlobalVar("var", pkgvar.name, ""), err |-> NoErr]
     ELSE IF fh # {}
     THEN LET fn == in.Functions[FirstOf(fh)] IN
          [v |-> GlobalVar("func", fn.name,
                           IF fn.Entry = 0 THEN "function is inlined" ELSE ""),
           err |-> NoErr]
     ELSE IF ch # {}
     THEN LET cval == in.consts[FirstOf(ch)] IN
          IF cval.kind \in {"int", "uint"}
          THEN [v |-> GlobalVar("const", name, cval.kind), err |-> NoErr]
          ELSE [v |-> NilVar, err |-> <<"unsupported constant kind">>]
     ELSE [v |-> NilVar, err |-> NoErr]

\* EvalScope.findGlobal, from the i-th package path on
RECURSIVE findGlobalFrom(_, _)
findGlobalFrom(in, i) ==
  LET name == IF i <= Len(in.PackageMap)
              THEN Append(in.PackageMap[i], in.varName)
              ELSE <<in.pkgName, in.varName>>
      r == findGlobalInternal(in, name)
  IN IF r.err # NoErr \/ r.v # NilVar THEN r
     ELSE IF i <= Len(in.PackageMap) THEN findGlobalFrom(in, i + 1)
     ELSE [v |-> NilVar,
           err |-> <<"could not find symbol value for", in.pkgName, in.varName>>]

findGlobal(in) == findGlobalFrom(in, 1)

InitGlobal ==
  /\ IdleEval
  /\ pin \in GlobalInputs
  /\ pout = <<>>
  /\ pcall = "none"

\* a package-qualified name is looked up
CallFindGlobal ==
  /\ pcall = "none"
  /\ pout' = findGlobal(pin)
  /\ pcall' = "findGlobal"
  /\ UNCHANGED <<evalCtl, opidx, stack, err, pin>>

NextGlobal == CallFindGlobal

SpecGlobal == InitGlobal /\ [][NextGlobal]_vars

\* the names findGlobal tries, in order: one for every path of the package
\* name, then the package name itself
Candidates ==
  [i \in 1..(Len(pin.PackageMap) + 1) |->
     IF i <= Len(pin.PackageMap) THEN Append(pin.PackageMap[i], pin.varName)
     ELSE <<pin.pkgName, pin.varName>>]
AnyHit(table) == \E k \in DOMAIN Candidates : Hits(table, Candidates[k]) # {}
ErrNotFound == <<"could not find symbol value for", pin.pkgName, pin.varName>>

\* C16 as stated: whenever a package variable matches the looked-up name the
\* result is a package variable, even if a function or a constant matches
\* too; otherwise a matching function wins over any matching constant;
\* when nothing matches the error is "could not find symbol value for".
C16_VarThenFuncThenConst ==
  pcall = "findGlobal" =>
    IF AnyHit(pin.packageVars)
    THEN pout.v.kind = "var" \/ pout.err = <<"dwarf reader error">>
    ELSE IF AnyHit(pin.Functions) THEN pout.v.kind = "func"
    ELSE IF AnyHit(pin.consts)
    THEN pout.v.kind = "const" \/ pout.err = <<"unsupported constant kind">>
    ELSE pout.v = NilVar /\ pout.err = ErrNotFound

\* C16 amended: findGlobal tries the candidate names in order (each path of
\* the package name, then the package name itself); the first candidate
\* that any symbol matches decides, and for that candidate a package
\* variable wins over a function and a function over a constant, the first
\* matching entry of the table being taken; when no candidate matches
\* anything the error is "could not find symbol value for".
C16_FirstCandidateDecides ==
  pcall = "findGlobal" =>
    LET hit(k) == \E t \in {pin.packageVars, pin.Functions, pin.consts} :
                    Hits(t, Candidates[k]) # {}
        ks == {k \in DOMAIN Candidates : hit(k)}
    IN IF ks = {} THEN pout.v = NilVar /\ pout.err = ErrNotFound
       ELSE LET c == Candidates[FirstOf(ks)]
                vh == Hits(pin.packageVars, c)
                fh == Hits(pin.Functions, c)
                ch == Hits(pin.consts, c)
            IN IF vh # {}
               THEN IF pin.packageVars[FirstOf(vh)].readerr
                    THEN pout.v = NilVar /\ pout.err # NoErr
                    ELSE /\ pout.err = NoErr /\ pout.v.kind = "var"
                         /\ pout.v.name = pin.packageVars[FirstOf(vh)].name
               ELSE IF fh # {}
               THEN /\ pout.err = NoErr /\ pout.v.kind = "func"
                    /\ pout.v.name = pin.Functions[FirstOf(fh)].name
               ELSE IF pin.consts[FirstOf(ch)].kind \in {"int", "uint"}
               THEN pout.err = NoErr /\ pout.v.kind = "const" /\ pout.v.name = c
               ELSE pout.v = NilVar /\ pout.err = <<"unsupported constant kind">>

\* C16 witness: package pkg has the paths a/pkg and b/pkg; the function
\* a/pkg.F is returned although the package variable b/pkg.F matches too.
C16_Witness ==
  /\ pcall = "findGlobal"
  /\ pin.PackageMap = << <<"a", "pkg">>, <<"b", "pkg">> >>
  /\ pout.v = GlobalVar("func", <<"a", "pkg", "F">>, "")
  /\ \E i \in DOMAIN pin.packageVars :
       pin.packageVars[i] = [name |-> <<"b", "pkg", "F">>, readerr |-> FALSE]

\* ------------------------------------ Operator Engine: sliceAccess, reslice
MaxLen == 5
MaxLoad == 2

\* the stride of the elements of each kind of sequence Value
StrideOf == [Array |-> 4, Slice |-> 4, String |-> 1, Ptr |-> 4]

\* An array, slice, string or C pointer Value: Kind, Len, Cap, Base, stride,
\* the VariableCPtr flag, and whether it is loaded.  A loaded Value holds
\* its first nloaded elements (Children, or the bytes of Value), at most
\* MaxLoad of them (the limit of the load configuration).
SeqVariable(kind, len, cptr, loaded) ==
  [Kind |-> kind, Len |-> len, Cap |-> len, Base |-> 4096,
   stride |-> StrideOf[kind], cptr |-> cptr, loaded |-> loaded,
   nloaded |-> IF ~loaded THEN 0 ELSE IF len < MaxLoad THEN len ELSE MaxLoad]

SeqVariables ==
  {SeqVariable(k, n, FALSE, l) :
     k \in {"Array", "Slice", "String"}, n \in 0..MaxLen, l \in BOOLEAN}
  \cup {SeqVariable(k, n, TRUE, l) :
          k \in {"Ptr", "String"}, n \in 0..MaxLen, l \in BOOLEAN}

SeqInputs == [v : SeqVariables, a : -1..(MaxLen + 1), b : -1..(MaxLen + 1)]

\* the Value of an element, and no Value
Elem(addr, loaded) == [Addr |-> addr, loaded |-> loaded]
NilElem == Elem(-1, FALSE)
ErrOutOfBounds == <<"index out of bounds">>

\* faulty variant of sliceAccess: the index Len passes the bounds check
sliceAccess_OffByOne(v, idx) ==
  IF idx < 0 \/ (~v.cptr /\ idx > v.Len)
  THEN [v |-> NilElem, err |-> ErrOutOfBounds]
  ELSE IF v.loaded /\ idx >= v.nloaded
  THEN [v |-> NilElem, err |-> ErrOutOfBounds]
  ELSE [v |-> Elem(v.Base + idx * v.stride, v.loaded), err |-> NoErr]

\* Variable.sliceAccess
sliceAccess(v, idx) ==
  LET wrong == IF ~v.cptr THEN idx < 0 \/ idx >= v.Len ELSE idx < 0 IN
  IF wrong THEN [v |-> NilElem, err |-> ErrOutOfBounds]
  ELSE IF v.loaded
  THEN IF idx >= v.nloaded THEN [v |-> NilElem, err |-> ErrOutOfBounds]
       ELSE [v |-> Elem(v.Base + idx * v.stride, TRUE), err |-> NoErr]
  ELSE [v |-> Elem(v.Base + idx * v.stride, FALSE), err |-> NoErr]

\* faulty variant of reslice: the length of the result is high
reslice_LenIsHigh(v, low, high) ==
  IF low < 0 \/ high < 0 \/ (~v.cptr /\ (low > v.Len \/ high > v.Len))
  THEN [v |-> v, err |-> ErrOutOfBounds]
  ELSE [v |-> [v EXCEPT !.Len = high, !.Cap = high,
                        !.Base = @ + low * v.stride, !.loaded = FALSE,
                        !.nloaded = 0],
        err |-> NoErr]

\* Variable.reslice
reslice(v, low, high) ==
  LET wrong == IF ~v.cptr
               THEN low < 0 \/ low > v.Len \/ high < 0 \/ high > v.Len
               ELSE low < 0 \/ high < 0
      hi == IF v.cptr /\ high = 0 THEN low ELSE high
      cptrNeedsFakeSlice == v.cptr /\ v.Kind # "String"
  IN IF wrong THEN [v |-> v, err |-> ErrOutOfBounds]
     ELSE IF hi - low < 0 THEN [v |-> v, err |-> ErrOutOfBounds]
     ELSE [v |-> [Kind |-> IF v.Kind = "Array" \/ cptrNeedsFakeSlice
                           THEN "Slice" ELSE v.Kind,
                  Len |-> hi - low, Cap |-> hi - low,
                  Base |-> v.Base + low * v.stride, stride |-> v.stride,
                  cptr |-> v.cptr, loaded |-> FALSE, nloaded |-> 0],
           err |-> NoErr]

InitSeq ==
  /\ IdleEval
  /\ pin \in SeqInputs
  /\ pout = <<>>
  /\ pcall = "none"

\* the element pin.a of pin.v is taken
CallSliceAccess ==
  /\ pcall = "none"
  /\ pout' = sliceAccess(pin.v, pin.a)
  /\ pcall' = "sliceAccess"
  /\ UNCHANGED <<evalCtl, opidx, stack, err, pin>>

\* pin.v is resliced to [pin.a : pin.b]
CallReslice ==
  /\ pcall = "none"
  /\ pout' = [first |-> reslice(pin.v, pin.a, pin.b), again |-> <<>>]
  /\ pcall' = "reslice"
  /\ UNCHANGED <<evalCtl, opidx, stack, err, pin>>

\* the result of the reslice is resliced in turn
CallResliceAgain ==
  /\ pcall = "reslice" /\ pout.first.err = NoErr
  /\ \E low, high \in -1..(MaxLen + 1) :
       pout' = [pout EXCEPT !.again =
                  [low |-> low, high |-> high,
                   r |-> reslice(pout.first.v, low, high)]]
  /\ pcall' = "resliceAgain"
  /\ UNCHANGED <<evalCtl, opidx, stack, err, pin>>

NextSeq == CallSliceAccess \/ CallReslice \/ CallResliceAgain

SpecSeq == InitSeq /\ [][NextSeq]_vars

\* C17 as stated: without the C-pointer flag the access fails with "index
\* out of bounds" exactly when idx < 0 or idx >= Len and otherwise gives the
\* element at Base + idx * stride; with the flag it fails exactly when
\* idx < 0.
C17_BoundsIffLen ==
  pcall = "sliceAccess" =>
    LET v == pin.v
        idx == pin.a
        out == IF v.cptr THEN idx < 0 ELSE idx < 0 \/ idx >= v.Len
    IN /\ (pout.err = ErrOutOfBounds) <=> out
       /\ ~out => pout.err = NoErr /\ pout.v.Addr = v.Base + idx * v.stride

\* C17 amended: the access fails with "index out of bounds" exactly when
\* idx < 0, or idx >= Len on a Value without the C-pointer flag, or the
\* Value is loaded and idx is not below the number of elements it holds;
\* otherwise it gives the element at Base + idx * stride.
C17_BoundsLenAndLoaded ==
  pcall = "sliceAccess" =>
    LET v == pin.v
        idx == pin.a
        out == \/ idx < 0
               \/ ~v.cptr /\ idx >= v.Len
               \/ v.loaded /\ idx >= v.nloaded
    IN /\ (pout.err = ErrOutOfBounds) <=> out
       /\ out => pout.v = NilElem
       /\ ~out => /\ pout.err = NoErr
                  /\ pout.v.Addr = v.Base + idx * v.stride
                  /\ pout.v.loaded = v.loaded

\* C17 witness: a slice of five elements is loaded with its first two
\* elements only; element 3, below Len, is refused as out of bounds.
C17_Witness ==
  /\ pcall = "sliceAccess"
  /\ pin.v = SeqVariable("Slice", 5, FALSE, TRUE) /\ pin.a = 3
  /\ pin.v.nloaded < 3
  /\ pout = [v |-> NilElem, err |-> ErrOutOfBounds]

\* C18: for a Value v without the C-pointer flag and 0 <= lo <= hi <= v.Len,
\* r = reslice(v, lo, hi) succeeds with Base = v.Base + lo * stride,
\* Len = hi - lo and v's stride, and reslice(r, 0, hi - lo) succeeds with
\* the Base, Len and stride of r.
C18_ResliceIdempotent ==
  (pcall \in {"reslice", "resliceAgain"} /\ ~pin.v.cptr
     /\ 0 <= pin.a /\ pin.a <= pin.b /\ pin.b <= pin.v.Len) =>
    LET r == pout.first.v IN
    /\ pout.first.err = NoErr
    /\ r.Base = pin.v.Base + pin.a * pin.v.stride
    /\ r.Len = pin.b - pin.a
    /\ r.stride = pin.v.stride
    /\ (pcall = "resliceAgain" /\ pout.again.low = 0
          /\ pout.again.high = pin.b - pin.a) =>
         /\ pout.again.r.err = NoErr
         /\ pout.again.r.v.Base = r.Base
         /\ pout.again.r.v.Len = r.Len
         /\ pout.again.r.v.stride = r.stride

\* C18 witness: an array of five elements resliced to [1:4] and the result
\* resliced to [0:3].
C18_Witness ==
  /\ pcall = "resliceAgain"
  /\ pin.v = SeqVariable("Array", 5, FALSE, FALSE) /\ pin.a = 1 /\ pin.b = 4
  /\ pout.again.low = 0 /\ pout.again.high = 3
  /\ pout.again.r.err = NoErr
  /\ pout.again.r.v = pout.first.v
  /\ pout.first.v.Base = pin.v.Base + 4 /\ pout.first.v.Len = 3

\* ---------------------------------------------- Operator Engine: mapAccess
MaxMapEntries == 2
MaxStringLen == 2

\* Values are sequences of characters: the digits of an integer, the bytes
\* of a string.
IntVals == {<<"1">>, <<"2">>}
StrVals == {<<"a">>, <<"b">>, <<"a", "a", "b">>, <<"a", "a", "c">>}
ValsOf(t) == IF t = "int" THEN IntVals ELSE StrVals

\* the index operand: a constant of the expression (no DwarfType) or a
\* variable of the target, with its type and its whole value
MapIndexes ==
  [const : BOOLEAN, type : {"int"}, val : IntVals]
  \cup [const : BOOLEAN, type : {"string"}, val : StrVals]
  \cup {[const |-> TRUE, type |-> "float", val |-> <<"1">>]}

\* the keys of a map with key type t, as they are in the memory of the target
MapKeys(t) ==
  [type : {t}, val : ValsOf(t), Unreadable : {FALSE}]
  \cup {[type |-> t, val |-> <<>>, Unreadable |-> TRUE]}

\* a map: whether mapIterator returns nil, its key type, the keys of its
\* entries in iteration order (the value of entry i is MapVal(i)), and
\* whether v.Unreadable is set when the iteration ends
Maps ==
  {[itnil |-> TRUE, keyType |-> "int", keys |-> <<>>, Unreadable |-> TRUE]}
  \cup UNION {[itnil : {FALSE}, keyType : {t},
               keys : SeqsUpTo(MapKeys(t), MaxMapEntries),
               Unreadable : BOOLEAN] : t \in {"int", "string"}}

MapInputs == [m : Maps, idx : MapIndexes]

MapVal(i) == [entry |-> i]
NilVal == MapVal(0)

\* Variable.loadValue on a key or an index: a string is read up to
\* maxStringLen bytes, Len being its whole length; a constant is loaded
\* from the start
loadValue(x, const, maxStringLen) ==
  [Kind |-> x.type, const |-> const,
   Len |-> IF x.type = "string" THEN Len(x.val) ELSE 0,
   Value |-> IF x.type = "string" /\ ~const /\ Len(x.val) > maxStringLen
             THEN SubSeq(x.val, 1, maxStringLen) ELSE x.val]

\* Variable.isType(typ, kind), v being the index and typ the type of a key
isType(v, typ) ==
  IF ~v.const
  THEN IF typ # v.Kind THEN <<"can not convert value of type to type">> ELSE NoErr
  ELSE CASE typ = "int" ->
              IF v.Kind # "int" THEN <<"can not convert constant to type">> ELSE NoErr
         [] typ = "float" ->
              IF v.Kind \notin {"int", "float"}
              THEN <<"can not convert constant to type">> ELSE NoErr
         [] typ = "string" ->
              IF v.Kind # "string" THEN <<"can not convert constant to type">> ELSE NoErr
         [] OTHER -> <<"can not convert constant to type">>
TypeErrs ==
  {<<"can not convert value of type to type">>, <<"can not convert constant to type">>}

ErrTooLong == <<"string too long for comparison">>
ErrKeyNotFound == <<"key not found">>
ErrUnreadableMap == <<"can not access unreadable map">>

\* compareOp(token.EQL, xv, yv) for the kinds of keys above
compareEQL(xv, yv) ==
  IF xv.Kind = "string"
  THEN IF xv.Len # yv.Len THEN [eql |-> FALSE, err |-> NoErr]
       ELSE IF Len(xv.Value) # xv.Len \/ Len(yv.Value) # yv.Len
       THEN [eql |-> FALSE, err |-> ErrTooLong]
       ELSE [eql |-> xv.Value = yv.Value, err |-> NoErr]
  ELSE [eql |-> xv.Value = yv.Value, err |-> NoErr]

\* what mapAccess returns, with the number of entries iterated and of key
\* comparisons made
MapResult(v, e, nnext, ncmp) == [v |-> v, err |-> e, nnext |-> nnext, ncmp |-> ncmp]

\* faulty variant of mapScan: a map without the key gives a zero Value
RECURSIVE mapScan_ZeroOnMiss(_, _, _, _)
mapScan_ZeroOnMiss(m, idx, lim, i) ==
  IF i > Len(m.keys) THEN MapResult(NilVal, NoErr, i - 1, i - 1)
  ELSE LET key == loadValue(m.keys[i], FALSE, lim)
           terr == IF i = 1 THEN isType(idx, key.Kind) ELSE NoErr
           c == compareEQL(key, idx)
       IN IF m.keys[i].Unreadable THEN MapResult(NilVal, ErrUnreadableMap, i, i - 1)
          ELSE IF terr # NoErr THEN MapResult(NilVal, terr, i, i - 1)
          ELSE IF c.err # NoErr THEN MapResult(NilVal, c.err, i, i)
          ELSE IF c.eql THEN MapResult(MapVal(i), NoErr, i, i)
          ELSE mapScan_ZeroOnMiss(m, idx, lim, i + 1)

\* faulty variant of mapScan: the type of the index is never checked
RECURSIVE mapScan_NoTypeCheck(_, _, _, _)
mapScan_NoTypeCheck(m, idx, lim, i) ==
  IF i > Len(m.keys)
  THEN MapResult(NilVal, IF m.Unreadable THEN <<"unreadable">> ELSE ErrKeyNotFound,
                 i - 1, i - 1)
  ELSE LET key == loadValue(m.keys[i], FALSE, lim)
           c == compareEQL(key, idx)
       IN IF m.keys[i].Unreadable THEN MapResult(NilVal, ErrUnreadableMap, i, i - 1)
          ELSE IF c.err # NoErr THEN MapResult(NilVal, c.err, i, i)
          ELSE IF c.eql THEN MapResult(MapVal(i), NoErr, i, i)
          ELSE mapScan_NoTypeCheck(m, idx, lim, i + 1)

\* mapAccess, the loop "for it.next()" from entry i on; the flag first is
\* set exactly at entry 1, and i - 1 comparisons were made before entry i
RECURSIVE mapScan(_, _, _, _)
mapScan(m, idx, lim, i) ==
  IF i > Len(m.keys)
  THEN MapResult(NilVal, IF m.Unreadable THEN <<"unreadable">> ELSE ErrKeyNotFound,
                 i - 1, i - 1)
  ELSE LET key == loadValue(m.keys[i], FALSE, lim)
           terr == IF i = 1 THEN isType(idx, key.Kind) ELSE NoErr
           c == compareEQL(key, idx)
       IN IF m.keys[i].Unreadable THEN MapResult(NilVal, ErrUnreadableMap, i, i - 1)
          ELSE IF terr # NoErr THEN MapResult(NilVal, terr, i, i - 1)
          ELSE IF c.err # NoErr THEN MapResult(NilVal, c.err, i, i)
          ELSE IF c.eql THEN MapResult(MapVal(i), NoErr, i, i)
          ELSE mapScan(m, idx, lim, i + 1)

\* Variable.mapAccess
mapAccess(m, idx) ==
  IF m.itnil THEN MapResult(NilVal, ErrUnreadableMap, 0, 0)
  ELSE LET lim == IF idx.Kind = "string" /\ Len(idx.Value) = idx.Len
                     /\ idx.Len > MaxStringLen
                  THEN idx.Len ELSE MaxStringLen
       IN mapScan(m, idx, lim, 1)

\* evalIndex, case reflect.Map: the index is loaded, then looked up
evalIndexMap(m, idx) == mapAccess(m, loadValue(idx, idx.const, MaxStringLen))

InitMap ==
  /\ IdleEval
  /\ pin \in MapInputs
  /\ pout = <<>>
  /\ pcall = "none"

\* the map pin.m is indexed with pin.idx
CallMapAccess ==
  /\ pcall = "none"
  /\ pout' = evalIndexMap(pin.m, pin.idx)
  /\ pcall' = "mapAccess"
  /\ UNCHANGED <<evalCtl, opidx, stack, err, pin>>

NextMap == CallMapAccess

SpecMap == InitMap /\ [][NextMap]_vars

\* the entries of the map whose key is the index, and whether the map and
\* all its keys can be read
EqualKeys ==
  {i \in DOMAIN pin.m.keys :
     pin.m.keys[i].type = pin.idx.type /\ pin.m.keys[i].val = pin.idx.val}
ReadableMap ==
  /\ ~pin.m.itnil /\ ~pin.m.Unreadable
  /\ \A i \in DOMAIN pin.m.keys : ~pin.m.keys[i].Unreadable

\* C19: a Value is returned only for an entry whose key is the index, never
\* a made-up zero Value; on a readable map, with an index of the key type
\* and every comparison made succeeding, a key that is not in the map gives
\* the error "key not found" and no Value, and a key that is in the map
\* gives the Value of the first iterated entry that has it.
C19_KeyNotFound ==
  pcall = "mapAccess" =>
    /\ pout.err = NoErr =>
         pout.v.entry \in EqualKeys /\ \A j \in EqualKeys : pout.v.entry <= j
    /\ pout.err # NoErr => pout.v = NilVal
    /\ (ReadableMap /\ pin.idx.type = pin.m.keyType /\ pout.err # ErrTooLong) =>
         IF EqualKeys = {}
         THEN pout.err = ErrKeyNotFound /\ pout.nnext = Len(pin.m.keys)
         ELSE pout.err = NoErr /\ pout.v = MapVal(FirstOf(EqualKeys))

\* C19 witness: a readable map of two entries with string keys is indexed
\* with a string that is the key of neither.
C19_Witness ==
  /\ pcall = "mapAccess" /\ ReadableMap /\ Len(pin.m.keys) = 2
  /\ pin.idx = [const |-> TRUE, type |-> "string", val |-> <<"a", "a", "b">>]
  /\ pin.m.keys[2].val = <<"a", "a", "c">>
  /\ pout = MapResult(NilVal, ErrKeyNotFound, 2, 2)

\* the index is not of the key type of the map
Mismatch == pin.idx.type # pin.m.keyType

\* C20 as stated: an index that is not of the key type fails with the type
\* error, with no key compared and no entry iterated beyond the first.
C20_TypeErrorAlways ==
  (pcall = "mapAccess" /\ ~pin.m.itnil /\ Mismatch) =>
    /\ pout.err \in TypeErrs
    /\ pout.ncmp = 0 /\ pout.nnext <= 1

\* C20 amended: the type of the index is checked against the first iterated
\* key, once that key has been read.  On a map with at least one entry
\* whose first key is readable, an index that is not of the key type fails
\* with the type error after that one entry was iterated, before any key
\* is compared; when the first key is unreadable the error is that of the
\* unreadable map; when the map has no entry no type check is made and the
\* result is that of the exhausted iteration ("key not found").
C20_TypeErrorOnFirstKey ==
  (pcall = "mapAccess" /\ ~pin.m.itnil /\ Mismatch) =>
    /\ pout.v = NilVal /\ pout.ncmp = 0
    /\ IF pin.m.keys = <<>>
       THEN /\ pout.nnext = 0
            /\ pout.err = IF pin.m.Unreadable THEN <<"unreadable">>
                          ELSE ErrKeyNotFound
       ELSE /\ pout.nnext = 1
            /\ pout.err = IF pin.m.keys[1].Unreadable THEN ErrUnreadableMap
                          ELSE IF pin.idx.const
                          THEN <<"can not convert constant to type">>
                          ELSE <<"can not convert value of type to type">>

\* C20 witness: a map of two int keys is indexed with a string variable;
\* the type error comes after one entry and no comparison.
C20_Witness ==
  /\ pcall = "mapAccess" /\ pin.m.keyType = "int" /\ Len(pin.m.keys) = 2
  /\ ReadableMap
  /\ pin.idx = [const |-> FALSE, type |-> "string", val |-> <<"a">>]
  /\ pout = MapResult(NilVal, <<"can not convert value of type to type">>, 1, 0)

\* -------------------------------------------- Operator Engine: evalReslice
\* An operand of evalReslice: Kind, Len as known so far, Base, stride, the
\* VariableCPtr flag, mapSkip, whether it is unreadable, and for a map the
\* number of entries mapIterator reads into Len.
XVar(kind, len, base, cptr, skip, unreadable, count) ==
  [Kind |-> kind, Len |-> len, Cap |-> len, Base |-> base,
   stride |-> IF kind \in DOMAIN StrideOf THEN StrideOf[kind] ELSE 0,
   cptr |-> cptr, loaded |-> FALSE, nloaded |-> 0, mapSkip |-> skip,
   Unreadable |-> unreadable, count |-> count]

\* a nil *Variable
NilX == XVar("nil", 0, 0, FALSE, 0, FALSE, 0)

ResliceSubjects ==
  {XVar("Map", n, 4096, FALSE, k, u, c) :
     c \in 0..MaxMapEntries, n \in 0..MaxMapEntries, k \in {0, 1},
     u \in BOOLEAN}
  \cup {XVar(kind, MaxMapEntries, b, FALSE, 0, FALSE, 0) :
          kind \in {"Slice", "Array", "String"}, b \in {0, 4096}}
  \cup {XVar("Ptr", 0, 4096, c, 0, FALSE, 0) : c \in BOOLEAN}
  \cup {XVar("Int", 0, 0, FALSE, 0, FALSE, 0)}

\* an index operand: an integer constant, or a constant that is no integer
IntOperand(n) == [isInt |-> TRUE, n |-> n]
IndexOperands ==
  {IntOperand(n) : n \in -1..(MaxMapEntries + 1)}
  \cup {[isInt |-> FALSE, n |-> 0]}

\* Variable.asInt on a constant
asInt(v) ==
  IF v.isInt THEN [n |-> v.n, err |-> NoErr]
  ELSE [n |-> 0, err |-> <<"can not convert constant to int">>]

\* the opcode Reslice and the operands the compiled program has pushed for
\* it: x, then the high bound if the expression has one, then the low bound
ResliceInputs ==
  [HasHigh : {FALSE}, x : ResliceSubjects, high : {IntOperand(0)},
   low : IndexOperands]
  \cup [HasHigh : {TRUE}, x : ResliceSubjects, high : IndexOperands,
        low : IndexOperands]

asXVar(v) ==
  [Kind |-> v.Kind, Len |-> v.Len, Cap |-> v.Cap, Base |-> v.Base,
   stride |-> v.stride, cptr |-> v.cptr, loaded |-> v.loaded,
   nloaded |-> v.nloaded, mapSkip |-> 0, Unreadable |-> FALSE, count |-> 0]

\* stack.pushErr(xev.reslice(low, high))
pushErrReslice(xev, low, high) ==
  LET r == reslice(xev, low, high) IN
  [stack |-> <<IF r.err = NoErr THEN asXVar(r.v) ELSE NilX>>, err |-> r.err]

ErrSecondSliceArg == <<"second slice argument must be empty for maps">>
ErrMapIndex == <<"map index out of bounds">>

\* faulty variant of evalResliceMap: the skip count is not bounds-checked
evalResliceMap_NoBound(in, low) ==
  IF in.HasHigh THEN [stack |-> <<>>, err |-> ErrSecondSliceArg]
  ELSE [stack |-> <<[in.x EXCEPT !.mapSkip = @ + low, !.Len = in.x.count]>>,
        err |-> NoErr]

\* evalReslice, case reflect.Map (op.Node.High != nil exactly when the
\* compiled opcode has HasHigh)
evalResliceMap(in, low) ==
  LET xev == [in.x EXCEPT !.mapSkip = @ + low, !.Len = in.x.count] IN
  IF in.HasHigh THEN [stack |-> <<>>, err |-> ErrSecondSliceArg]
  ELSE IF xev.mapSkip >= xev.Len THEN [stack |-> <<>>, err |-> ErrMapIndex]
  ELSE [stack |-> <<xev>>, err |-> NoErr]

\* EvalScope.evalReslice: the operand stack and stack.err it leaves
evalReslice(in) ==
  LET low == asInt(in.low)
      hi == asInt(in.high)
      high == IF in.HasHigh THEN hi.n ELSE in.x.Len
  IN IF low.err # NoErr
     THEN [stack |-> IF in.HasHigh THEN <<in.x, in.high>> ELSE <<in.x>>,
           err |-> low.err]
     ELSE IF in.HasHigh /\ hi.err # NoErr THEN [stack |-> <<in.x>>, err |-> hi.err]
     ELSE IF in.x.Unreadable THEN [stack |-> <<>>, err |-> <<"unreadable">>]
     ELSE CASE in.x.Kind \in {"Slice", "Array", "String"} ->
                 IF in.x.Base = 0 THEN [stack |-> <<>>, err |-> <<"can not slice">>]
                 ELSE pushErrReslice(in.x, low.n, high)
            [] in.x.Kind = "Map" -> evalResliceMap(in, low.n)
            [] in.x.Kind = "Ptr" /\ in.x.cptr -> pushErrReslice(in.x, low.n, high)
            [] OTHER -> [stack |-> <<>>, err |-> <<"can not slice (type)">>]

InitReslice ==
  /\ IdleEval
  /\ pin \in ResliceInputs
  /\ pout = <<>>
  /\ pcall = "none"

\* the interpreter executes the opcode Reslice on the operands of pin
ExecReslice ==
  /\ pcall = "none"
  /\ pout' = evalReslice(pin)
  /\ pcall' = "evalReslice"
  /\ UNCHANGED <<evalCtl, opidx, stack, err, pin>>

NextReslice == ExecReslice

SpecReslice == InitReslice /\ [][NextReslice]_vars

\* a readable map is resliced with integer bounds
MapResliced ==
  /\ pcall = "evalReslice" /\ pin.x.Kind = "Map" /\ ~pin.x.Unreadable
  /\ pin.low.isInt /\ (pin.HasHigh => pin.high.isInt)

C22_ZeroZeroIsWholeMap ==
  (MapResliced /\ pin.HasHigh /\ pin.low.n = 0 /\ pin.high.n = 0
     /\ pin.x.mapSkip = 0 /\ pin.x.count > 0) =>
    /\ pout.err = NoErr
    /\ pout.stack = <<[pin.x EXCEPT !.Len = pin.x.count]>>

\* ------------------------------- Operator Engine: evalBinary comparisons
\* the string length limit of loadFullValueLongerStrings
MaxLongerStringLen == 3

\* An operand of a comparison.  const: it has no DwarfType (a constant of
\* the expression).  type: the printed name of its DwarfType.  mem: the
\* bytes of a string in the target; Len: its length, known from the
\* string header.  s, n: the loaded Value of a string, of an integer.
\* Base: the backing storage of a slice, map, channel or function.
\* faulty: reading its memory fails.  nloads: how many times the bytes
\* of the string were read.
CmpVar(kind, type, const, mem, n, base, faulty, unreadable) ==
  [Kind |-> kind, type |-> type, const |-> const, mem |-> mem,
   Len |-> Len(mem), s |-> IF const THEN mem ELSE <<>>, n |-> n,
   Base |-> base, faulty |-> faulty, loaded |-> const,
   Unreadable |-> unreadable, nloads |-> 0, FloatSpecial |-> FALSE]

\* a float64 of the target; special: it is an infinity or a NaN
FloatVar(n, special) ==
  [CmpVar("Float", "float64", FALSE, <<>>, n, 4096, FALSE, FALSE)
     EXCEPT !.FloatSpecial = special]

LongString(c) ==
  [i \in 1..(MaxLongerStringLen + 1) |->
     IF i = MaxLongerStringLen + 1 THEN c ELSE "a"]
CmpStrings ==
  {<<>>, <<"a">>, <<"b">>, <<"a", "b">>, LongString("a"), LongString("b")}

nilVariable == CmpVar("nil", "", TRUE, <<>>, 0, 0, FALSE, FALSE)

CmpVars ==
  {CmpVar("String", t, FALSE, m, 0, 4096, f, FALSE) :
     t \in {"string"}, m \in CmpStrings, f \in BOOLEAN}
  \cup {CmpVar("String", "mystring", FALSE, <<"a">>, 0, 4096, FALSE, FALSE),
        CmpVar("String", "string", FALSE, <<"a">>, 0, 4096, TRUE, TRUE)}
  \cup {CmpVar("String", "", TRUE, m, 0, 0, FALSE, FALSE) :
          m \in {<<"a">>, <<"a", "b">>}}
  \cup {CmpVar(k[1], k[2], FALSE, <<>>, 0, b, f, FALSE) :
          k \in {<<"Slice", "[]int">>, <<"Slice", "[]string">>,
                 <<"Map", "map[int]int">>, <<"Chan", "chan int">>,
                 <<"Func", "func()">>},
          b \in {0, 4096}, f \in BOOLEAN}
  \cup {CmpVar("Int", "int", FALSE, <<>>, n, 0, FALSE, FALSE) : n \in {1, 2}}
  \cup {CmpVar("Int", "", TRUE, <<>>, 1, 0, FALSE, FALSE)}
  \cup {FloatVar(1, FALSE), FloatVar(0, TRUE)}
  \cup {nilVariable}

CmpTokens == {"==", "!=", "<", ">"}
CmpInputs == [op : CmpTokens, x : CmpVars, y : CmpVars]

\* Variable.loadValue with a string length limit
loadValueCmp(v, maxStringLen) ==
  IF v.loaded \/ v.Unreadable THEN v
  ELSE IF v.faulty THEN [v EXCEPT !.Unreadable = TRUE]
  ELSE IF v.Kind = "String"
  THEN [v EXCEPT !.loaded = TRUE, !.nloads = @ + 1,
                 !.s = IF Len(v.mem) > maxStringLen
                       THEN SubSeq(v.mem, 1, maxStringLen) ELSE v.mem]
  ELSE [v EXCEPT !.loaded = TRUE]

NilableKinds == {"Ptr", "Chan", "Map", "Interface", "Slice", "Func", "nil"}

negotiateTypeNil(op, v) ==
  IF op \notin {"==", "!="} THEN <<"operator can not be applied to nil">>
  ELSE IF v.Kind \in NilableKinds THEN NoErr
  ELSE <<"can not compare to nil">>

\* Variable.isType of a constant against the type of the other operand
isTypeCmp(c, v) ==
  IF c.Kind = v.Kind \/ (c.Kind = "Int" /\ v.Kind = "Float") THEN NoErr
  ELSE <<"can not convert constant to type">>

\* negotiateType for the comparison tokens: the error it returns
negotiateType(op, xv, yv) ==
  IF xv = nilVariable THEN negotiateTypeNil(op, yv)
  ELSE IF yv = nilVariable THEN negotiateTypeNil(op, xv)
  ELSE IF xv.const /\ yv.const THEN NoErr
  ELSE IF ~xv.const /\ ~yv.const
  THEN IF xv.type # yv.type THEN <<"mismatched types">> ELSE NoErr
  ELSE IF ~xv.const THEN isTypeCmp(yv, xv)
  ELSE isTypeCmp(xv, yv)

\* a < b on strings, bytewise
RECURSIVE StrLess(_, _)
StrLess(a, b) ==
  IF b = <<>> THEN FALSE
  ELSE IF a = <<>> THEN TRUE
  ELSE IF Head(a) # Head(b) THEN Head(a) = "a" /\ Head(b) = "b"
  ELSE StrLess(Tail(a), Tail(b))

\* constantCompare on two numbers, on two strings
constantCompareInt(op, a, b) ==
  CASE op = "==" -> a = b [] op = "!=" -> a # b [] op = "<" -> a < b
    [] OTHER -> a > b
constantCompareStr(op, a, b) ==
  CASE op = "==" -> a = b [] op = "!=" -> a # b [] op = "<" -> StrLess(a, b)
    [] OTHER -> StrLess(b, a)

\* the kinds compareOp hands to constantCompare
NumKinds == {"Bool", "Int", "Float"}

\* Variable.isNil
isNil(v) ==
  CASE v.Kind = "nil" -> TRUE
    [] v.Kind = "Ptr" -> v.Children[1].Addr = 0
    [] v.Kind = "Interface" ->
         v.Children[1].Addr = 0 /\ v.Children[1].Kind = "Invalid"
    [] v.Kind \in {"Slice", "Map", "Func", "Chan"} -> v.Base = 0
    [] OTHER -> FALSE

CmpResult(v, e, xv, yv) == [v |-> v, err |-> e, xv |-> xv, yv |-> yv]
ErrCanNotCompare == <<"can not compare variables">>

\* faulty variant of compareOp: strings are loaded before their lengths
\* are compared
compareOp_LoadsFirst(op, xv, yv) ==
  LET xl == loadValueCmp(xv, MaxLongerStringLen)
      yl == loadValueCmp(yv, MaxLongerStringLen)
  IN CmpResult(constantCompareStr(op, xl.s, yl.s), NoErr, xl, yl)

\* faulty variant of compareOp: slices, maps, channels and functions
\* compare by their backing storage
compareOp_ByBase(op, xv, yv) ==
  CmpResult((xv.Base = yv.Base) = (op = "=="), NoErr, xv, yv)

\* compareOp(op, xv, yv): the boolean, the error, and the operands as the
\* comparison leaves them
compareOp(op, xv, yv) ==
  CASE xv.Kind \in NumKinds ->
         IF yv.Kind \notin NumKinds
         THEN CmpResult(FALSE, <<"constant compare: recovered">>, xv, yv)
         ELSE CmpResult(constantCompareInt(op, xv.n, yv.n), NoErr, xv, yv)
    [] xv.Kind = "String" ->
         IF xv.Len # yv.Len /\ op \in {"==", "!="}
         THEN CmpResult(op = "!=", NoErr, xv, yv)
         ELSE LET xl == loadValueCmp(xv, MaxLongerStringLen)
                  yl == IF yv.Kind = "String"
                        THEN loadValueCmp(yv, MaxLongerStringLen) ELSE yv
              IN IF yv.Kind # "String"
                 THEN CmpResult(FALSE, <<"internal debugger error: recovered">>, xl, yl)
                 ELSE IF Len(xl.s) # xl.Len \/ Len(yl.s) # yl.Len
                 THEN CmpResult(FALSE, ErrTooLong, xl, yl)
                 ELSE CmpResult(constantCompareStr(op, xl.s, yl.s), NoErr, xl, yl)
    [] OTHER ->
         IF op \notin {"==", "!="}
         THEN CmpResult(FALSE, <<"operator not defined">>, xv, yv)
         ELSE IF xv = nilVariable
         THEN CmpResult(isNil(yv) = (op = "=="), NoErr, xv, yv)
         ELSE IF yv = nilVariable
         THEN CmpResult(isNil(xv) = (op = "=="), NoErr, xv, yv)
         ELSE IF xv.Kind \in {"Slice", "Map", "Func", "Chan"}
         THEN CmpResult(FALSE, ErrCanNotCompare, xv, yv)
         ELSE CmpResult(FALSE, <<"unimplemented comparison">>, xv, yv)

BoolConst(b) == [Kind |-> "Bool", b |-> b]
BinResult(stk, e, xv, yv) == [stack |-> stk, err |-> e, xv |-> xv, yv |-> yv]
ErrUnreadable == <<"unreadable">>
errOperationOnSpecialFloat == <<"operations on non-finite floats not implemented">>

\* EvalScope.evalBinary for a comparison token: yv and xv are popped; the
\* result is the operand stack and stack.err it leaves
evalBinary(op, x, y) ==
  LET xv == IF x.Kind # "String" THEN loadValueCmp(x, MaxStringLen) ELSE x
      yv == IF y.Kind # "String" THEN loadValueCmp(y, MaxStringLen) ELSE y
  IN IF xv.Unreadable THEN BinResult(<<>>, ErrUnreadable, xv, y)
     ELSE IF yv.Unreadable THEN BinResult(<<>>, ErrUnreadable, xv, yv)
     ELSE IF xv.FloatSpecial \/ yv.FloatSpecial
     THEN BinResult(<<>>, errOperationOnSpecialFloat, xv, yv)
     ELSE LET terr == negotiateType(op, xv, yv) IN
          IF terr # NoErr THEN BinResult(<<>>, terr, xv, yv)
          ELSE LET c == compareOp(op, xv, yv) IN
               IF c.err # NoErr THEN BinResult(<<>>, c.err, c.xv, c.yv)
               ELSE BinResult(<<BoolConst(c.v)>>, NoErr, c.xv, c.yv)

InitCompare ==
  /\ IdleEval
  /\ pin \in CmpInputs
  /\ pout = <<>>
  /\ pcall = "none"

\* the interpreter executes the opcode Binary on the operands of pin
ExecBinary ==
  /\ pcall = "none"
  /\ pout' = evalBinary(pin.op, pin.x, pin.y)
  /\ pcall' = "evalBinary"
  /\ UNCHANGED <<evalCtl, opidx, stack, err, pin>>

NextCompare == ExecBinary

SpecCompare == InitCompare /\ [][NextCompare]_vars

\* C23: == and != between two strings of unequal length that pass type
\* negotiation yield false and true, and the bytes of neither string are
\* read.
C23_UnequalLengthNoLoad ==
  (/\ pcall = "evalBinary" /\ pin.op \in {"==", "!="}
   /\ pin.x.Kind = "String" /\ pin.y.Kind = "String"
   /\ pin.x.Len # pin.y.Len
   /\ ~pin.x.Unreadable /\ ~pin.y.Unreadable
   /\ (pin.x.const \/ pin.y.const \/ pin.x.type = pin.y.type)) =>
    /\ pout.err = NoErr
    /\ pout.stack = <<BoolConst(pin.op = "!=")>>
    /\ pout.xv.nloads = 0 /\ pout.yv.nloads = 0
    /\ pout.xv.loaded = pin.x.loaded /\ pout.yv.loaded = pin.y.loaded

\* C23 witness: "a" != a longer string of the target whose bytes can not
\* even be read.
C23_Witness ==
  /\ pcall = "evalBinary" /\ pin.op = "!="
  /\ pin.x.Kind = "String" /\ pin.y.Kind = "String"
  /\ ~pin.x.const /\ ~pin.y.const
  /\ pin.x.Len = 1 /\ pin.y.Len > MaxLongerStringLen /\ pin.y.faulty
  /\ pout.stack = <<BoolConst(TRUE)>> /\ pout.yv.nloads = 0

UncomparableKinds == {"Slice", "Map", "Chan", "Func"}

\* C24: == and != between two readable slices, maps, channels or
\* functions fail and push no result, with "can not compare" when the two
\* have the same type; against the nil literal they succeed, == yielding
\* true exactly when the value has no backing storage.
C24_NotComparableButNil ==
  (/\ pcall = "evalBinary" /\ pin.op \in {"==", "!="}
   /\ ~pin.x.faulty /\ ~pin.y.faulty) =>
    /\ (pin.x.Kind \in UncomparableKinds /\ pin.y.Kind \in UncomparableKinds) =>
         /\ pout.stack = <<>>
         /\ pout.err # NoErr
         /\ pin.x.type = pin.y.type => pout.err = ErrCanNotCompare
    /\ (pin.x.Kind \in UncomparableKinds /\ pin.y = nilVariable) =>
         /\ pout.err = NoErr
         /\ pout.stack = <<BoolConst((pin.x.Base = 0) = (pin.op = "=="))>>
    /\ (pin.x = nilVariable /\ pin.y.Kind \in UncomparableKinds) =>
         /\ pout.err = NoErr
         /\ pout.stack = <<BoolConst((pin.y.Base = 0) = (pin.op = "=="))>>

\* C24 witness: two non-nil slices of one type are compared and refused.
C24_Witness ==
  /\ pcall = "evalBinary" /\ pin.op = "=="
  /\ pin.y.Kind = "Slice" /\ pin.y.Base # 0 /\ ~pin.y.faulty
  /\ pin.x.Kind = "Slice" /\ pin.x.Base # 0 /\ pin.x.type = pin.y.type
  /\ ~pin.x.faulty /\ pout.err = ErrCanNotCompare /\ pout.stack = <<>>

\* ---------------------------------- Operator Engine: evalPointerDeref
PtrAddrs == {0, 4096, 8192}
ElemTypes == {"int", "string", "struct"}

\* An operand of *x.  nilLit: it is nilVariable (whose kind is Ptr).
\* Addr: where the pointer is stored.  nchildren: len(Children); a pointer
\* built by a cast from an integer, or loaded before, has its child
\* already.  childAddr, OnlyAddr: Children[0] when present.  ptrval: the
\* pointer as stored in the target; faulty: reading it fails.
DerefVar(kind, nilLit, addr, elem, nchildren, childAddr, onlyAddr, ptrval, faulty) ==
  [Kind |-> kind, nilLit |-> nilLit, Addr |-> addr, elem |-> elem,
   nchildren |-> nchildren, childAddr |-> childAddr, OnlyAddr |-> onlyAddr,
   ptrval |-> ptrval, faulty |-> faulty]

DerefInputs ==
  {DerefVar("Ptr", TRUE, 0, "int", 1, 0, TRUE, 0, FALSE)}
  \cup {DerefVar(k, FALSE, 4096, "int", 0, 0, FALSE, 0, FALSE) :
          k \in {"Int", "Slice", "String"}}
  \cup {DerefVar("Ptr", FALSE, a, e, 0, 0, FALSE, pv, f) :
          a \in PtrAddrs, e \in ElemTypes, pv \in PtrAddrs, f \in BOOLEAN}
  \cup {DerefVar("Ptr", FALSE, a, e, 1, c, o, c, FALSE) :
          a \in PtrAddrs, e \in ElemTypes, c \in PtrAddrs, o \in BOOLEAN}

\* the Value *x pushes: &xev.Children[0]
Pointee(addr, elem) == [Addr |-> addr, type |-> elem, OnlyAddr |-> FALSE]

\* Variable.loadPtr: the pointer is read from the target; a pointer
\* stored at address 0, or whose read fails, becomes unreadable with
\* Value 0
loadPtr(v) ==
  IF v.Addr = 0 \/ v.faulty
  THEN [Unreadable |-> TRUE, Value |-> 0, childAddr |-> 0]
  ELSE [Unreadable |-> FALSE, Value |-> v.ptrval, childAddr |-> v.ptrval]

ErrNilDeref == <<"nil pointer dereference">>
ErrNilLitDeref == <<"nil can not be dereferenced">>
ErrNotDeref == <<"expression can not be dereferenced">>
ErrReadPointer == <<"couldn't read pointer">>

\* faulty variant of evalPointerDeref: the address read is not checked
evalPointerDeref_NoNilCheck(xev) ==
  IF xev.nchildren = 1
  THEN [stack |-> <<Pointee(xev.childAddr, xev.elem)>>, err |-> NoErr]
  ELSE [stack |-> <<Pointee(loadPtr(xev).childAddr, xev.elem)>>, err |-> NoErr]

\* EvalScope.evalPointerDeref, xev being the popped operand: the operand
\* stack and stack.err it leaves
evalPointerDeref(xev) ==
  IF xev.Kind # "Ptr" THEN [stack |-> <<>>, err |-> ErrNotDeref]
  ELSE IF xev.nilLit THEN [stack |-> <<>>, err |-> ErrNilLitDeref]
  ELSE IF xev.nchildren = 1
  THEN [stack |-> <<Pointee(xev.childAddr, xev.elem)>>, err |-> NoErr]
  ELSE LET l == loadPtr(xev) IN
       IF l.Unreadable /\ l.Value = 0
       THEN [stack |-> <<>>, err |-> ErrReadPointer]
       ELSE IF l.childAddr = 0 THEN [stack |-> <<>>, err |-> ErrNilDeref]
       ELSE [stack |-> <<Pointee(l.childAddr, xev.elem)>>, err |-> NoErr]

InitDeref ==
  /\ IdleEval
  /\ pin \in DerefInputs
  /\ pout = <<>>
  /\ pcall = "none"

\* the interpreter executes the opcode PointerDeref on the operand pin
ExecPointerDeref ==
  /\ pcall = "none"
  /\ pout' = evalPointerDeref(pin)
  /\ pcall' = "evalPointerDeref"
  /\ UNCHANGED <<evalCtl, opidx, stack, err, pin>>

NextDeref == ExecPointerDeref

SpecDeref == InitDeref /\ [][NextDeref]_vars

\* the address of the pointee of a pointer operand
PointeeAddr(v) == IF v.nchildren = 1 THEN v.childAddr ELSE v.ptrval

\* C25 as stated: *p fails with "nil pointer dereference" and pushes
\* nothing for every readable pointer p whose pointee address is 0, and
\* with "nil can not be dereferenced" for the nil literal.
C25_NilDerefAlways ==
  pcall = "evalPointerDeref" /\ pin.Kind = "Ptr" =>
    /\ pin.nilLit => pout = [stack |-> <<>>, err |-> ErrNilLitDeref]
    /\ (~pin.nilLit /\ PointeeAddr(pin) = 0 /\ ~pin.faulty /\ pin.Addr # 0) =>
         pout = [stack |-> <<>>, err |-> ErrNilDeref]

\* C25 amended: *p fails with "nil pointer dereference" and pushes
\* nothing for every readable pointer p that has no child attached yet
\* and whose stored address is 0, and with "nil can not be dereferenced"
\* for the nil literal; a pointer that already has its child (built by a
\* cast from an integer) is dereferenced to that child whatever its
\* address, without an error.
C25_NilDerefWhenRead ==
  pcall = "evalPointerDeref" /\ pin.Kind = "Ptr" =>
    /\ pin.nilLit => pout = [stack |-> <<>>, err |-> ErrNilLitDeref]
    /\ (~pin.nilLit /\ pin.nchildren = 0 /\ pin.ptrval = 0
          /\ ~pin.faulty /\ pin.Addr # 0) =>
         pout = [stack |-> <<>>, err |-> ErrNilDeref]
    /\ (~pin.nilLit /\ pin.nchildren = 1) =>
         pout = [stack |-> <<Pointee(pin.childAddr, pin.elem)>>, err |-> NoErr]

\* C25 witness: a nil pointer read from the target is dereferenced.
C25_Witness ==
  /\ pcall = "evalPointerDeref" /\ pin.Kind = "Ptr" /\ ~pin.nilLit
  /\ pin.nchildren = 0 /\ pin.ptrval = 0 /\ ~pin.faulty /\ pin.Addr # 0
  /\ pout.err = ErrNilDeref /\ pout.stack = <<>>

\* -------------------------------------- Operator Engine: minmaxBuiltin
MaxMinMaxArgs == 3

MinMaxArgs ==
  {CmpVar("Int", "int", FALSE, <<>>, n, 4096, FALSE, FALSE) : n \in {3, 5, 7}}
  \cup {CmpVar("Int", "", TRUE, <<>>, n, 0, FALSE, FALSE) : n \in {3, 5, 7}}
  \cup {FloatVar(3, FALSE), FloatVar(5, FALSE), FloatVar(0, TRUE)}
  \cup {CmpVar("Int", "int", FALSE, <<>>, 0, 4096, TRUE, FALSE)}

MinMaxInputs ==
  [name : {"min", "max"}, args : SeqsUpTo(MinMaxArgs, MaxMinMaxArgs)]

\* a nil *Variable
NilCmp == CmpVar("none", "", TRUE, <<>>, 0, 0, FALSE, FALSE)

ErrCouldNotLoad == <<"could not load">>
ErrNotEnoughArgs == <<"not enough arguments">>

\* faulty variant of minmaxFold: a tie replaces the current best
RECURSIVE minmaxFold_TieReplaces(_, _, _, _)
minmaxFold_TieReplaces(op, args, i, best) ==
  IF i > Len(args)
  THEN IF best = 0 THEN [best |-> 0, err |-> ErrNotEnoughArgs]
       ELSE [best |-> best, err |-> NoErr]
  ELSE LET a == loadValueCmp(args[i], MaxStringLen) IN
       IF a.Unreadable THEN [best |-> 0, err |-> ErrCouldNotLoad]
       ELSE IF a.FloatSpecial THEN [best |-> 0, err |-> errOperationOnSpecialFloat]
       ELSE IF best = 0 THEN minmaxFold_TieReplaces(op, args, i + 1, i)
       ELSE IF negotiateType(op, a, args[best]) # NoErr
       THEN [best |-> 0, err |-> negotiateType(op, a, args[best])]
       ELSE IF compareOp(op, a, args[best]).v \/ a.n = args[best].n
       THEN minmaxFold_TieReplaces(op, args, i + 1, i)
       ELSE minmaxFold_TieReplaces(op, args, i + 1, best)

\* the loop of minmaxBuiltin from argument i on, best being the index of
\* the current best argument (0: none yet), and the return after it
RECURSIVE minmaxFold(_, _, _, _)
minmaxFold(op, args, i, best) ==
  IF i > Len(args)
  THEN IF best = 0 THEN [best |-> 0, err |-> ErrNotEnoughArgs]
       ELSE [best |-> best, err |-> NoErr]
  ELSE LET a == loadValueCmp(args[i], MaxStringLen) IN
       IF a.Unreadable THEN [best |-> 0, err |-> ErrCouldNotLoad]
       ELSE IF a.FloatSpecial THEN [best |-> 0, err |-> errOperationOnSpecialFloat]
       ELSE IF best = 0 THEN minmaxFold(op, args, i + 1, i)
       ELSE LET terr == negotiateType(op, a, args[best])
                c == compareOp(op, a, args[best])
            IN IF terr # NoErr THEN [best |-> 0, err |-> terr]
               ELSE IF c.err # NoErr THEN [best |-> 0, err |-> c.err]
               ELSE IF c.v THEN minmaxFold(op, args, i + 1, i)
               ELSE minmaxFold(op, args, i + 1, best)

\* minBuiltin, maxBuiltin
minmaxBuiltin(name, args) ==
  minmaxFold(IF name = "min" THEN "<" ELSE ">", args, 1, 0)

\* executeOp, case BuiltinCall: the arguments are popped and the result
\* of the builtin is pushed with its error
execBuiltinCall(in) ==
  LET r == minmaxBuiltin(in.name, in.args) IN
  [stack |-> <<IF r.err = NoErr THEN loadValueCmp(in.args[r.best], MaxStringLen)
               ELSE NilCmp>>,
   err |-> r.err, best |-> r.best]

InitMinMax ==
  /\ IdleEval
  /\ pin \in MinMaxInputs
  /\ pout = <<>>
  /\ pcall = "none"

\* the interpreter executes the opcode BuiltinCall of min or max
ExecBuiltinCall ==
  /\ pcall = "none"
  /\ pout' = execBuiltinCall(pin)
  /\ pcall' = "BuiltinCall"
  /\ UNCHANGED <<evalCtl, opidx, stack, err, pin>>

NextMinMax == ExecBuiltinCall

SpecMinMax == InitMinMax /\ [][NextMinMax]_vars

\* argument i is readable and finite
Regular(i) == ~pin.args[i].faulty /\ ~pin.args[i].FloatSpecial
\* the arguments with a type all have the same type
OneType ==
  \A i, j \in 1..Len(pin.args) :
    ~pin.args[i].const /\ ~pin.args[j].const => pin.args[i].type = pin.args[j].type
\* argument i is at least as good as argument j
AsGood(i, j) ==
  IF pin.name = "min" THEN pin.args[i].n <= pin.args[j].n
  ELSE pin.args[i].n >= pin.args[j].n

\* C26: min and max of readable finite arguments of one type return the
\* first argument that no other argument beats (ties keep the earlier
\* one); a non-finite float after regular arguments aborts with the
\* non-finite-float error; no argument at all fails with "not enough
\* arguments".
C26_MinMaxFold ==
  pcall = "BuiltinCall" =>
    LET n == Len(pin.args) IN
    /\ n = 0 => pout.err = ErrNotEnoughArgs
    /\ (n > 0 /\ OneType /\ \A i \in 1..n : Regular(i)) =>
         /\ pout.err = NoErr
         /\ pout.best \in 1..n
         /\ \A j \in 1..n : AsGood(pout.best, j)
         /\ \A j \in 1..(pout.best - 1) : pin.args[j].n # pin.args[pout.best].n
         /\ pout.stack = <<[pin.args[pout.best] EXCEPT !.loaded = TRUE]>>
    /\ \A i \in 1..n :
         (/\ pin.args[i].FloatSpecial /\ OneType
          /\ \A j \in 1..(i - 1) : Regular(j)) =>
           pout.err = errOperationOnSpecialFloat

\* C26 witness: min(3, 7, 5) on constants returns its first argument.
C26_Witness ==
  /\ pcall = "BuiltinCall" /\ pin.name = "min" /\ Len(pin.args) = 3
  /\ \A i \in 1..3 : pin.args[i].const
  /\ pin.args[1].n = 3 /\ pin.args[2].n = 7 /\ pin.args[3].n = 5
  /\ pout.best = 1 /\ pout.err = NoErr /\ pout.stack[1].n = 3

\* ----------------------------- Operator Engine: convertInt, evalTypeCast
\* A uint64 is four limbs of 16 bits, least significant first, so that
\* the 64-bit width of the code is kept exactly.
LimbValues == {0, 1, 127, 128, 255, 32767, 32768, 65408, 65535}
Words == [1..4 -> LimbValues]
AllOnes == [k \in 1..4 |-> 65535]

\* bit i (0..63) of a word
Bit(x, i) == (x[(i \div 16) + 1] \div (2 ^ (i % 16))) % 2

\* faulty variant of MaskLimb: the shift by 64 bits is taken to give no
\* mask at all
MaskLimb_NoWrap(bits, k) ==
  LET lo == 16 * (k - 1) IN
  IF bits >= 64 THEN 0
  ELSE IF bits >= lo + 16 THEN 65535
  ELSE IF bits <= lo THEN 0
  ELSE (2 ^ (bits - lo)) - 1

\* limb k of uint64((1 << bits) - 1); for bits = 64 the shift gives 0 and
\* the subtraction wraps to all ones
MaskLimb(bits, k) ==
  LET lo == 16 * (k - 1) IN
  IF bits >= lo + 16 THEN 65535
  ELSE IF bits <= lo THEN 0
  ELSE (2 ^ (bits - lo)) - 1

\* n & mask
AndMask(n, bits) == [k \in 1..4 |-> n[k] % (MaskLimb(bits, k) + 1)]

\* faulty variant of convertInt: no sign extension
convertInt_NoSignExtension(n, signed, size) == AndMask(n, size * 8)

\* convertInt(n, signed, size)
convertInt(n, signed, size) ==
  LET bits == size * 8
      r == AndMask(n, bits)
  IN IF signed /\ Bit(r, bits - 1) # 0
     THEN [k \in 1..4 |-> r[k] + (65535 - MaskLimb(bits, k))]
     ELSE r

IntSizes == {1, 2, 4, 8}
IntType(kind, size) == [Kind |-> kind, size |-> size]
IntTypes == {IntType(k, sz) : k \in {"Int", "Uint"}, sz \in IntSizes}

\* an integer Variable of the target: its type and its Value, which is
\* the int64 (for Int) or uint64 (for Uint) the variable holds
IntVar(typ, val) ==
  [Kind |-> typ.Kind, size |-> typ.size, Value |-> val,
   Unreadable |-> FALSE, faulty |-> FALSE]
IsValueOf(typ, val) ==
  \A i \in (typ.size * 8)..63 :
    Bit(val, i) = IF typ.Kind = "Int" THEN Bit(val, typ.size * 8 - 1) ELSE 0
IntVars ==
  UNION {{IntVar(t, w) : w \in {x \in Words : IsValueOf(t, x)}} : t \in IntTypes}

\* typeCastCompatibleTypes on two integer types (the alignment of an
\* integer type is its size)
typeCastCompatibleTypes(typ1, typ2) ==
  typ1.size = typ2.size /\ typ1.Kind = typ2.Kind

\* EvalScope.evalTypeCast of an integer argv to the integer type typ: the
\* operand stack and stack.err it leaves, argv being popped
evalTypeCast(argv, typ) ==
  IF typeCastCompatibleTypes(IntType(argv.Kind, argv.size), typ)
  THEN [stack |-> <<[argv EXCEPT !.Kind = typ.Kind, !.size = typ.size]>>,
        err |-> NoErr]
  ELSE IF argv.Unreadable \/ argv.faulty
  THEN [stack |-> <<>>, err |-> ErrUnreadable]
  ELSE [stack |-> <<IntVar(typ, convertInt(argv.Value, typ.Kind = "Int", typ.size))>>,
        err |-> NoErr]

InitCast ==
  /\ IdleEval
  /\ pin \in IntVars
  /\ pout = <<>>
  /\ pcall = "none"

\* the expression T(v) is evaluated, T an integer type
CastTo ==
  /\ pcall = "none"
  /\ \E typ \in IntTypes :
       pout' = [typ |-> typ, v |-> evalTypeCast(pin, typ).stack[1], back |-> pin]
  /\ pcall' = "cast"
  /\ UNCHANGED <<evalCtl, opidx, stack, err, pin>>

\* the result is cast back to the signed type of the width of v
CastBack ==
  /\ pcall = "cast"
  /\ pout' = [pout EXCEPT
                !.back = evalTypeCast(pout.v, IntType("Int", pin.size)).stack[1]]
  /\ pcall' = "castback"
  /\ UNCHANGED <<evalCtl, opidx, stack, err, pin>>

NextCast == CastTo \/ CastBack

SpecCast == InitCast /\ [][NextCast]_vars

\* the word whose low 8*size bits are those of v and whose higher bits
\* all equal fill
LowBitsThen(x, v, size, fill) ==
  \A i \in 0..63 : Bit(x, i) = IF i < size * 8 THEN Bit(v, i) ELSE fill
SignBit(v, size) == Bit(v, size * 8 - 1)

\* C27: casting an integer v of width w to the signed type of a narrower
\* width w' and back to the signed type of width w yields the low w' bits
\* of v sign-extended; the narrowing cast itself yields them sign-extended
\* for a signed and zero-extended for an unsigned target (-1 gives -1 as
\* int8 and 255 as uint8).
C27_NarrowAndBack ==
  (pcall \in {"cast", "castback"} /\ pout.typ.size < pin.size) =>
    /\ (pcall = "cast" /\ pout.typ.Kind = "Int") =>
         LowBitsThen(pout.v.Value, pin.Value, pout.typ.size,
                     SignBit(pin.Value, pout.typ.size))
    /\ (pcall = "cast" /\ pout.typ.Kind = "Uint") =>
         LowBitsThen(pout.v.Value, pin.Value, pout.typ.size, 0)
    /\ (pcall = "castback" /\ pout.typ.Kind = "Int") =>
         /\ LowBitsThen(pout.back.Value, pin.Value, pout.typ.size,
                        SignBit(pin.Value, pout.typ.size))
         /\ pout.back.Kind = "Int" /\ pout.back.size = pin.size
    /\ (pin.Value = AllOnes /\ pout.typ = IntType("Int", 1)) =>
         pout.v.Value = AllOnes
    /\ (pin.Value = AllOnes /\ pout.typ = IntType("Uint", 1)) =>
         pout.v.Value = <<255, 0, 0, 0>>

\* C27 witness: a 64-bit integer whose bit 7 is set and whose higher bits
\* are not all set went to int8 and back.
C27_Witness ==
  /\ pcall = "castback" /\ pin.size = 8 /\ pin.Kind = "Int"
  /\ pout.typ = IntType("Int", 1)
  /\ pin.Value = <<128, 1, 0, 0>>
  /\ pout.back.Value = <<65408, 65535, 65535, 65535>>

\* ---------------------------------------- Unreadable values: laziness
\* <<Unreadable, faulty>>: readable; its memory can not be read, which
\* shows when it is loaded; found unreadable when it was created
ReadStates == {<<FALSE, FALSE>>, <<FALSE, TRUE>>, <<TRUE, TRUE>>}

\* the local variable x that PushLocal finds
LazyVals ==
  {CmpVar(k[1], k[2], FALSE, <<>>, k[3], 4096, f[2], f[1]) :
     k \in {<<"Int", "int", 1>>, <<"Bool", "bool", 0>>, <<"Bool", "bool", 1>>},
     f \in ReadStates}
  \cup {[CmpVar("Slice", "[]int", FALSE, <<>>, 0, 4096, f[2], f[1])
           EXCEPT !.Len = MaxLoad] : f \in ReadStates}
LazyInts ==
  {[IntVar(t, w) EXCEPT !.Unreadable = f[1], !.faulty = f[2]] :
     t \in {IntType("Int", 4), IntType("Int", 8)},
     w \in {[k \in 1..4 |-> 0], [k \in 1..4 |-> IF k = 1 THEN 1 ELSE 0]},
     f \in ReadStates}

\* The program: PushLocal x, then at most one opcode that consumes x.
\* other: the second operand, a constant or a readable array; typ: the
\* target of a cast; flag: x is the first operand of the binary operator,
\* resp. the jump pops; when: the jump is JumpIfTrue
IntConst(n) == CmpVar("Int", "", TRUE, <<>>, n, 0, FALSE, FALSE)
GoodArray ==
  [CmpVar("Array", "[2]int", FALSE, <<>>, 0, 4096, FALSE, FALSE)
     EXCEPT !.Len = MaxLoad]
LazyProgram(consumer, x, other, typ, flag, when) ==
  [consumer |-> consumer, x |-> x, other |-> other, typ |-> typ,
   flag |-> flag, when |-> when]
LazyInputs ==
  {LazyProgram(c, x, IntConst(1), IntType("Int", 8), f, FALSE) :
     c \in {"none", "Unary", "Index", "Reslice", "Binary"},
     x \in LazyVals, f \in BOOLEAN}
  \cup {LazyProgram("IndexBy", x, GoodArray, IntType("Int", 8), FALSE, FALSE) :
          x \in LazyVals}
  \cup {LazyProgram("Jump", x, IntConst(1), IntType("Int", 8), f, w) :
          x \in LazyVals, f \in BOOLEAN, w \in BOOLEAN}
  \cup {LazyProgram("TypeCast", x, IntConst(1), t, FALSE, FALSE) :
          x \in LazyInts, t \in {IntType("Int", 8), IntType("Int", 1),
                                 IntType("Uint", 8)}}

\* executeOp, case PushLocal, once the variable is found: it is pushed as
\* it is
pushLocalValue(v) == [stack |-> <<v>>, err |-> NoErr]

\* Variable.asInt on a constant or a variable
asIntVar(v) ==
  IF v.const
  THEN IF v.Kind = "Int" THEN [n |-> v.n, err |-> NoErr]
       ELSE [n |-> 0, err |-> <<"can not convert constant to int">>]
  ELSE LET l == loadValueCmp(v, MaxStringLen) IN
       IF l.Unreadable THEN [n |-> 0, err |-> ErrUnreadable]
       ELSE IF l.Kind # "Int" THEN [n |-> 0, err |-> <<"can not convert value to int">>]
       ELSE [n |-> l.n, err |-> NoErr]

\* faulty variant of evalUnary: an unreadable operand is pushed back
evalUnary_PushesUnreadable(xv) ==
  [stack |-> <<loadValueCmp(xv, MaxStringLen)>>,
   err |-> IF loadValueCmp(xv, MaxStringLen).Unreadable THEN ErrUnreadable
           ELSE NoErr]

\* EvalScope.evalUnary for the operator -, xv being the popped operand
evalUnary(xv) ==
  LET l == loadValueCmp(xv, MaxStringLen) IN
  IF l.Unreadable THEN [stack |-> <<>>, err |-> ErrUnreadable]
  ELSE IF l.FloatSpecial THEN [stack |-> <<>>, err |-> errOperationOnSpecialFloat]
  ELSE IF l.Kind \notin NumKinds
  THEN [stack |-> <<>>, err |-> <<"operator can not be applied">>]
  ELSE IF l.Kind = "Bool"
  THEN [stack |-> <<>>, err |-> <<"constant unary op: recovered">>]
  ELSE [stack |-> <<[l EXCEPT !.n = 0 - l.n]>>, err |-> NoErr]

\* EvalScope.evalIndex for a slice, array or string xev
evalIndex(xev, idxev) ==
  IF xev.Unreadable THEN [stack |-> <<>>, err |-> ErrUnreadable]
  ELSE IF xev.Kind \notin {"Slice", "Array", "String"}
  THEN [stack |-> <<>>, err |-> <<"does not support indexing">>]
  ELSE IF xev.Base = 0 THEN [stack |-> <<>>, err |-> <<"can not index">>]
  ELSE LET n == asIntVar(idxev) IN
       IF n.err # NoErr THEN [stack |-> <<>>, err |-> n.err]
       ELSE LET r == sliceAccess(SeqVariable(xev.Kind, xev.Len, FALSE, xev.loaded), n.n)
            IN [stack |-> <<r.v>>, err |-> r.err]

\* the operand of evalReslice as evalReslice reads it
toXVar(v) == XVar(v.Kind, v.Len, v.Base, FALSE, 0, v.Unreadable, 0)

\* faulty variant of evalJump: the sense of the jump is not looked at
evalJump_IgnoresWhen(stk, pops, when, hasNode) ==
  LET x == stk[Len(stk)]
      l == loadValueCmp(x, MaxStringLen)
      rest == IF pops THEN SubSeq(stk, 1, Len(stk) - 1) ELSE stk
  IN [stack |-> rest,
      err |-> IF x.Kind # "Bool" THEN <<"expression should be boolean">>
              ELSE IF l.Unreadable THEN ErrUnreadable ELSE NoErr,
      taken |-> x.Kind = "Bool" /\ ~l.Unreadable /\ l.n = 1]

\* EvalScope.evalJump, x being the top of the stack stk: the stack, the
\* error, and whether stack.opidx is set to Target - 1.  x is a pointer:
\* the Value that stays on the stack is the one loadValue has filled.
\* hasNode: the opcode carries the source expression
evalJump(stk, pops, when, hasNode) ==
  LET x == stk[Len(stk)]
      l == loadValueCmp(x, MaxStringLen)
      popped == SubSeq(stk, 1, Len(stk) - 1)
  IN IF x.Kind # "Bool"
     THEN [stack |-> IF pops THEN popped ELSE stk,
           err |-> IF hasNode THEN <<"expression should be boolean">>
                   ELSE <<"internal debugger error: expected boolean">>,
           taken |-> FALSE]
     ELSE [stack |-> IF pops THEN popped ELSE Append(popped, l),
           err |-> IF l.Unreadable THEN ErrUnreadable ELSE NoErr,
           taken |-> ~l.Unreadable /\ ((l.n = 1) = when)]

\* the opcode after PushLocal x
consume(in) ==
  CASE in.consumer = "Unary" -> evalUnary(in.x)
    [] in.consumer = "Binary" ->
         LET r == IF in.flag THEN evalBinary("==", in.x, in.other)
                  ELSE evalBinary("==", in.other, in.x)
         IN [stack |-> r.stack, err |-> r.err]
    [] in.consumer = "Index" -> evalIndex(in.x, in.other)
    [] in.consumer = "IndexBy" -> evalIndex(in.other, in.x)
    [] in.consumer = "Reslice" ->
         evalReslice([HasHigh |-> FALSE, x |-> toXVar(in.x),
                      high |-> IntOperand(0), low |-> IntOperand(0)])
    [] in.consumer = "TypeCast" -> evalTypeCast(in.x, in.typ)
    [] in.consumer = "Jump" ->
         LET r == evalJump(<<in.x>>, in.flag, in.when, TRUE)
         IN [stack |-> r.stack, err |-> r.err]

\* evalStack.result(cfg) for a stack of at most one Value
resultOf(st, hasCfg) ==
  IF /\ Len(st.stack) = 1 /\ hasCfg /\ st.err = NoErr
     /\ "faulty" \in DOMAIN st.stack[1] /\ st.stack[1].faulty
  THEN [r |-> <<[st.stack[1] EXCEPT !.Unreadable = TRUE]>>, err |-> st.err]
  ELSE [r |-> st.stack, err |-> st.err]

InitLazy ==
  /\ IdleEval
  /\ pin \in LazyInputs
  /\ pout = <<>>
  /\ pcall = "none"

\* PushLocal finds x
ExecPushLocalValue ==
  /\ pcall = "none"
  /\ pout' = pushLocalValue(pin.x)
  /\ pcall' = "PushLocal"
  /\ UNCHANGED <<evalCtl, opidx, stack, err, pin>>

\* the opcode that consumes x is executed
ExecConsumer ==
  /\ pcall = "PushLocal" /\ pin.consumer # "none"
  /\ pout' = consume(pin)
  /\ pcall' = "consumed"
  /\ UNCHANGED <<evalCtl, opidx, stack, err, pin>>

\* the program has ended, or an opcode has set the error: the evaluation
\* returns
ReturnResult ==
  /\ \/ pcall = "PushLocal" /\ pin.consumer = "none"
     \/ pcall = "consumed"
  /\ \E hasCfg \in BOOLEAN :
       pout' = [stack |-> pout.stack, err |-> resultOf(pout, hasCfg).err,
                res |-> resultOf(pout, hasCfg).r, hasCfg |-> hasCfg]
  /\ pcall' = "returned"
  /\ UNCHANGED <<evalCtl, opidx, stack, err, pin>>

NextLazy == ExecPushLocalValue \/ ExecConsumer \/ ReturnResult

SpecLazy == InitLazy /\ [][NextLazy]_vars

\* x can not be read
BadX == pin.x.Unreadable \/ pin.x.faulty
\* the consumer checks the error slot of x, loading x first
ChecksX ==
  \/ pin.consumer \in {"Unary", "Binary", "IndexBy"}
  \/ pin.consumer \in {"Index", "Reslice"} /\ pin.x.Unreadable
  \/ pin.consumer = "Jump" /\ pin.x.Kind = "Bool"
  \/ /\ pin.consumer = "TypeCast"
     /\ ~typeCastCompatibleTypes(IntType(pin.x.Kind, pin.x.size), pin.typ)

\* C28: PushLocal pushes an unreadable x and sets no error, and an
\* evaluation that ends there returns x with no error, the failure in its
\* error slot once it is loaded; the error of the evaluation is the
\* failure of x only after an opcode has consumed x, that opcode then
\* leaves no result on the stack, and index, reslice, unary and binary
\* operators, value-converting casts and jumps that check x do raise it.
C28_UnreadableIsLazy ==
  (pcall # "none" /\ BadX) =>
    /\ pcall = "PushLocal" => pout = [stack |-> <<pin.x>>, err |-> NoErr]
    /\ (pcall = "returned" /\ pin.consumer = "none") =>
         /\ pout.err = NoErr
         /\ pout.res = <<[pin.x EXCEPT !.Unreadable = @ \/ pout.hasCfg]>>
    /\ pout.err = ErrUnreadable =>
         /\ pin.consumer # "none"
         /\ pout.stack = IF pin.consumer = "Jump" /\ ~pin.flag
                         THEN <<[pin.x EXCEPT !.Unreadable = TRUE]>>
                         ELSE <<>>
         /\ pcall = "returned" => pout.res = pout.stack
    /\ (pcall \in {"consumed", "returned"} /\ pin.consumer # "none" /\ ChecksX) =>
         pout.err = ErrUnreadable

\* C28 witness: an integer whose memory can not be read was pushed and
\* negated, and the evaluation returned its failure and no Value.
C28_Witness ==
  /\ pcall = "returned" /\ pin.consumer = "Unary"
  /\ pin.x.Kind = "Int" /\ pin.x.faulty /\ ~pin.x.Unreadable
  /\ pout.err = ErrUnreadable /\ pout.res = <<>>

\* ------------------------------------------------------------ setValue
\* The destination: Kind, the name of its RealType, the size of the
\* type, and whether the type is "interface {}".
DstVar(kind, type, size) ==
  [Kind |-> kind, type |-> type, size |-> size, isEface |-> type = "interface {}"]
DstVars ==
  {DstVar("Int", "int", 8), DstVar("Bool", "bool", 1),
   DstVar("String", "string", 16), DstVar("Slice", "[]int", 24),
   DstVar("Ptr", "*int", 8), DstVar("Struct", "S", 16),
   DstVar("Map", "map[int]int", 8), DstVar("Func", "func()", 8),
   DstVar("Func", "func()", 0), DstVar("Interface", "interface {}", 16),
   DstVar("Interface", "error", 16)}

\* The source.  type: the name of its type, "" for a constant and for
\* nil; isNil: it is nilVariable; vkind: the kind of its constant Value
\* ("none": it has no Value); Unreadable: its error slot after loadValue;
\* Base, Len: of a string or slice; Addr: its address; ptrShaped: a map,
\* channel, pointer, or struct of one pointer field; constFlag:
\* VariableConstant.
SrcVar(kind, type, nilLit, vkind, unreadable, base, len, addr, constFlag) ==
  [Kind |-> kind, type |-> type, isNil |-> nilLit, vkind |-> vkind,
   Unreadable |-> unreadable, Base |-> base, Len |-> len, Addr |-> addr,
   ptrShaped |-> kind \in {"Map", "Chan", "Ptr"}, constFlag |-> constFlag]
SrcVars ==
  {SrcVar(k[1], k[2], FALSE, k[3], u, 4096, 1, a, FALSE) :
     k \in {<<"Int", "int", "Int">>, <<"Bool", "bool", "Bool">>,
            <<"String", "string", "String">>, <<"Slice", "[]int", "none">>,
            <<"Ptr", "*int", "none">>, <<"Struct", "S", "none">>,
            <<"Map", "map[int]int", "none">>, <<"Func", "func()", "none">>,
            <<"Interface", "error", "none">>,
            <<"Interface", "interface {}", "none">>},
     u \in BOOLEAN, a \in {0, 4096}}
  \cup {SrcVar("Int", "", FALSE, "Int", FALSE, 0, 0, 0, TRUE),
        SrcVar("String", "", FALSE, "String", FALSE, 0, 0, 0, TRUE),
        SrcVar("String", "", FALSE, "String", FALSE, 0, 1, 0, TRUE),
        SrcVar("String", "", FALSE, "String", FALSE, 4096, 1, 0, TRUE),
        SrcVar("Ptr", "", TRUE, "none", FALSE, 0, 0, 0, FALSE)}

\* the memory of the destination ("old": as before the call), and what
\* the memory accessor does with a write: it may fail, and a failed write
\* of several words may have written some of them
SetValueInputs ==
  [dstv : DstVars, srcv : SrcVars, mem : {"old"}, wfail : BOOLEAN,
   partial : BOOLEAN]

NoTypeErr == "none"
TypeConvErr == "typeConvErr"
OtherTypeErr == "can not convert constant"

\* Variable.isType(dstv.RealType, dstv.Kind) on the source: which kind of
\* error it returns
isTypeOfDst(v, dstv) ==
  IF v.type # ""
  THEN IF v.type # dstv.type THEN TypeConvErr ELSE NoTypeErr
  ELSE IF v.isNil
  THEN IF dstv.Kind \in {"Slice", "Map", "Func", "Ptr", "Chan", "Interface"}
       THEN NoTypeErr ELSE OtherTypeErr
  ELSE IF v.vkind = "none" THEN OtherTypeErr
  ELSE CASE dstv.Kind = "Int" -> IF v.vkind # "Int" THEN OtherTypeErr ELSE NoTypeErr
         [] dstv.Kind = "Bool" -> IF v.vkind # "Bool" THEN OtherTypeErr ELSE NoTypeErr
         [] dstv.Kind = "String" ->
              IF v.vkind # "String" THEN OtherTypeErr ELSE NoTypeErr
         [] OTHER -> OtherTypeErr

SetResult(e, m) == [err |-> e, mem |-> m]

\* dstv.writeUint, writeBool, writeZero, writeString, writeSlice,
\* writeCopy, writeEmptyInterface
write(w, what) ==
  IF w.wfail
  THEN SetResult(<<"write failed">>, IF w.partial THEN "partial" ELSE w.mem)
  ELSE SetResult(NoErr, what)

\* convertToEface(srcv, dstv)
convertToEface(dstv, srcv, w) ==
  IF ~dstv.isEface THEN SetResult(<<"can not convert value of type">>, w.mem)
  ELSE IF srcv.Kind = "Interface"
  THEN IF srcv.Unreadable THEN SetResult(ErrUnreadable, w.mem)
       ELSE write(w, "eface")
  ELSE IF ~srcv.ptrShaped THEN SetResult(<<"can not convert value of type">>, w.mem)
  ELSE write(w, "eface")

errFuncCallNotAllowedStrAlloc ==
  <<"literal string can not be allocated because function calls are not allowed without using 'call'">>
ErrNotImplemented == <<"can not set variables of type (not implemented)">>

\* setValue from the switch on dstv.Kind on
setValueWrite(dstv, srcv, w) ==
  CASE dstv.Kind = "Int" -> write(w, "uint")
    [] dstv.Kind = "Bool" -> write(w, "bool")
    [] dstv.Kind = "Func" /\ dstv.size = 0 -> SetResult(<<"can not assign to">>, w.mem)
    [] OTHER ->
         IF srcv.isNil THEN write(w, "zero")
         ELSE IF srcv.Kind = "String"
         THEN IF srcv.Base = 0 /\ srcv.Len > 0 /\ srcv.constFlag
              THEN SetResult(errFuncCallNotAllowedStrAlloc, w.mem)
              ELSE write(w, "string")
         ELSE IF srcv.Kind = "Slice" THEN write(w, "slice")
         ELSE IF dstv.Kind = "Ptr" THEN write(w, "uint")
         ELSE IF srcv.Addr # 0 THEN write(w, "copy")
         ELSE SetResult(ErrNotImplemented, w.mem)

\* faulty variant of setValue: the error slot of the source is not looked
\* at
setValue_IgnoresUnreadable(dstv, srcv, w) ==
  LET typerr == isTypeOfDst(srcv, dstv) IN
  IF typerr = TypeConvErr THEN convertToEface(dstv, srcv, w)
  ELSE IF typerr # NoTypeErr THEN SetResult(<<typerr>>, w.mem)
  ELSE setValueWrite(dstv, srcv, w)

\* EvalScope.setValue(dstv, srcv, srcExpr): the error it returns and the
\* memory of the destination it leaves
setValue(dstv, srcv, w) ==
  LET typerr == isTypeOfDst(srcv, dstv) IN
  IF typerr = TypeConvErr THEN convertToEface(dstv, srcv, w)
  ELSE IF typerr # NoTypeErr THEN SetResult(<<typerr>>, w.mem)
  ELSE IF srcv.Unreadable THEN SetResult(<<"Expression is unreadable">>, w.mem)
  ELSE setValueWrite(dstv, srcv, w)

InitSetValue ==
  /\ IdleEval
  /\ pin \in SetValueInputs
  /\ pout = <<>>
  /\ pcall = "none"

\* executeOp, case SetValue: lhv and rhv are popped and the error of
\* setValue becomes stack.err
ExecSetValue ==
  /\ pcall = "none"
  /\ pout' = setValue(pin.dstv, pin.srcv, pin)
  /\ pcall' = "SetValue"
  /\ UNCHANGED <<evalCtl, opidx, stack, err, pin>>

NextSetValue == ExecSetValue

SpecSetValue == InitSetValue /\ [][NextSetValue]_vars

\* the source can be converted to the empty interface the destination is
ToEface ==
  /\ isTypeOfDst(pin.srcv, pin.dstv) = TypeConvErr
  /\ pin.dstv.isEface
  /\ pin.srcv.Kind = "Interface" \/ pin.srcv.ptrShaped
Refused == pout.err # NoErr /\ pout.mem = pin.mem

OpidxAfter(i) ==
  IF i = LastExec THEN opidx
  ELSE log[CHOOSE j \in Execs : j > i /\ \A k \in Execs : k > i => j <= k].arg

\* the opcode executed at log position i raised no error: another opcode
\* was executed after it, or the evaluation has no error but the one run
\* raises after the loop
RaisedNoError(i) == i # LastExec \/ err \in {NoErr, ErrStillActive}

\* C30 as stated: a step that raises no error and does not request
\* suspension advances opidx by one, and a step that requests suspension
\* leaves opidx where it was.
C30_SuspensionKeepsOpidx ==
  \A i \in Execs :
    /\ (RaisedNoError(i) /\ ~SetsContinue(i)) => OpidxAfter(i) = log[i].arg + 1
    /\ SetsContinue(i) => OpidxAfter(i) = log[i].arg

\* C30 amended: a step that raises no error advances opidx by exactly
\* one, whether or not it requests suspension: run returns to its caller
\* with opidx behind the opcode that requested the suspension.
C30_StepAdvancesOpidx ==
  \A i \in Execs :
    /\ (RaisedNoError(i) /\ ~SetsContinue(i)) => OpidxAfter(i) = log[i].arg + 1
    /\ SetsContinue(i) => OpidxAfter(i) = log[i].arg + 1

\* C30 witness: run executed an opcode that did not suspend and then, at
\* the next position, one that requested suspension, and returned with
\* opidx behind that opcode.
C30_Witness ==
  /\ callInjectionContinue
  /\ \E i, j \in Execs :
       /\ i < j /\ ~SetsContinue(i) /\ SetsContinue(j)
       /\ log[j].arg = log[i].arg + 1
       /\ opidx = log[j].arg + 1

\* ------------------------------------------------ Operator Engine: evalJump
\* the number of opcodes of the program that holds the jump
MaxJumpOps == 3

\* the Values a jump can find on the stack
JumpVals ==
  LazyVals \cup {CmpVar("Bool", "", TRUE, <<>>, n, 0, FALSE, FALSE) : n \in {0, 1}}

\* The jump is the opcode at index at; under is the stack below its operand.
JumpInputs ==
  [x : JumpVals, under : {<<>>, <<IntConst(1)>>}, Pop : BOOLEAN,
   When : BOOLEAN, Target : 0..MaxJumpOps, at : 0..(MaxJumpOps - 1),
   hasNode : BOOLEAN]

\* executeOp on a Jump opcode: evalJump, then stack.opidx++
executeJump(in) ==
  LET r == evalJump(Append(in.under, in.x), in.Pop, in.When, in.hasNode)
  IN [stack |-> r.stack, err |-> r.err,
      opidx |-> (IF r.taken THEN in.Target - 1 ELSE in.at) + 1,
      executed |-> <<in.at>>]

InitJump ==
  /\ IdleEval
  /\ pin \in JumpInputs
  /\ pout = <<>>
  /\ pcall = "none"

\* run reaches the jump
ExecJump ==
  /\ pcall = "none"
  /\ pout' = executeJump(pin)
  /\ pcall' = "Jump"
  /\ UNCHANGED <<evalCtl, opidx, stack, err, pin>>

\* the next iteration of the loop of run: the opcode at stack.opidx is
\* executed provided there is one and no error is set
ExecAfterJump ==
  /\ pcall = "Jump"
  /\ pout.opidx < MaxJumpOps /\ pout.err = NoErr
  /\ pout' = [pout EXCEPT !.executed = Append(@, pout.opidx)]
  /\ pcall' = "next"
  /\ UNCHANGED <<evalCtl, opidx, stack, err, pin>>

NextJump == ExecJump \/ ExecAfterJump

SpecJump == InitJump /\ [][NextJump]_vars

\* the operand of the jump is a boolean that can be read
ReadableBool == pin.x.Kind = "Bool" /\ ~pin.x.Unreadable /\ ~pin.x.faulty
\* its value is the sense of the jump
SenseMatches == (pin.x.n = 1) = pin.When

\* C31: after a Jump on a readable boolean the opcode index is Target when
\* the value of the operand equals the sense of the jump and the index
\* after the jump otherwise, and the opcode executed next is the one at
\* that index; the operand leaves the stack exactly when Pop is set and
\* the rest of the stack is as it was; on an operand that is not a
\* boolean an error is set, no opcode is executed after the jump and the
\* index is the one after the jump.
C31_JumpLandsOnTarget ==
  pcall # "none" =>
    /\ ReadableBool =>
         /\ pout.err = NoErr
         /\ pout.opidx = IF SenseMatches THEN pin.Target ELSE pin.at + 1
         /\ pcall = "next" => pout.executed = <<pin.at, pout.opidx>>
         /\ pout.stack = IF pin.Pop THEN pin.under
                         ELSE Append(pin.under, [pin.x EXCEPT !.loaded = TRUE])
    /\ pin.x.Kind # "Bool" =>
         /\ pout.err # NoErr
         /\ pout.opidx = pin.at + 1
         /\ pcall # "next"

\* C31 witness: a jump-if-false that pops a false operand went back to an
\* earlier opcode, which was executed next.
C31_Witness ==
  /\ pcall = "next" /\ ReadableBool /\ pin.x.n = 0 /\ ~pin.When /\ pin.Pop
  /\ pin.at = 2 /\ pin.Target = 0 /\ pin.under # <<>>
  /\ pout.executed = <<2, 0>> /\ pout.stack = pin.under

\* ---------------------------------------------- Operator Engine: convertInt
ConvertInputs == [n : Words, signed : BOOLEAN, size : IntSizes]

InitConvert ==
  /\ IdleEval
  /\ pin \in ConvertInputs
  /\ pout = <<>>
  /\ pcall = "none"

\* convertInt(n, signed, size) is called
CallConvertInt ==
  /\ pcall = "none"
  /\ pout' = convertInt(pin.n, pin.signed, pin.size)
  /\ pcall' = "convertInt"
  /\ UNCHANGED <<evalCtl, opidx, stack, err, pin>>

NextConvert == CallConvertInt

SpecConvert == InitConvert /\ [][NextConvert]_vars

\* C32: for a size of 1, 2, 4 or 8 bytes convertInt returns a 64-bit word
\* whose low 8*size bits are those of n and whose higher bits are all set
\* when signed is true and bit 8*size-1 of n is set, and all clear
\* otherwise; for size 8 the word is n.
C32_ConvertIntMasksAndExtends ==
  pcall = "convertInt" =>
    /\ pout \in [1..4 -> 0..65535]
    /\ LowBitsThen(pout, pin.n, pin.size,
                   IF pin.signed /\ SignBit(pin.n, pin.size) = 1 THEN 1 ELSE 0)
    /\ pin.size = 8 => pout = pin.n

\* C32 witness: a word of 64 bits with its top bit set went through
\* convertInt with size 8 and signed, and came back as it was.
C32_Witness ==
  /\ pcall = "convertInt" /\ pin.size = 8 /\ pin.signed
  /\ pin.n = <<1, 0, 128, 32768>> /\ pout = pin.n

\* ------------------------------------ Operator Engine: evalBinary arithmetic
\* A constant.Value of kind Int is a sign and a magnitude of five limbs of
\* 16 bits, least significant first (math/big keeps integers this way);
\* the sum and the difference of two 64-bit integers fit.
ZeroMag == [k \in 1..5 |-> 0]
Mag(w) == [k \in 1..5 |-> IF k <= 4 THEN w[k] ELSE 0]
Low64(m) == [k \in 1..4 |-> m[k]]

RECURSIVE CarryIn(_, _, _)
CarryIn(a, b, k) ==
  IF k = 1 THEN 0 ELSE (a[k - 1] + b[k - 1] + CarryIn(a, b, k - 1)) \div 65536
AddMag(a, b) == [k \in 1..5 |-> (a[k] + b[k] + CarryIn(a, b, k)) % 65536]

RECURSIVE BorrowIn(_, _, _)
BorrowIn(a, b, k) ==
  IF k = 1 THEN 0
  ELSE IF a[k - 1] - b[k - 1] - BorrowIn(a, b, k - 1) < 0 THEN 1 ELSE 0
\* a - b for a >= b
SubMag(a, b) == [k \in 1..5 |-> (a[k] - b[k] - BorrowIn(a, b, k)) % 65536]
MagLess(a, b) ==
  \E k \in 1..5 : a[k] < b[k] /\ \A j \in (k + 1)..5 : a[j] = b[j]

\* -w in 64 bits
Negate64(w) ==
  Low64(SubMag([k \in 1..5 |-> IF k = 5 THEN 1 ELSE 0], Mag(w)))

BigInt(neg, mag) == [neg |-> neg /\ mag # ZeroMag, mag |-> mag]

\* the Value loadValue gives an integer variable: constant.MakeInt64 of
\* the int64, constant.MakeUint64 of the uint64 it holds
ValueOf(v) ==
  IF v.Kind = "Int" /\ Bit(v.Value, 63) = 1
  THEN BigInt(TRUE, Mag(Negate64(v.Value)))
  ELSE BigInt(FALSE, Mag(v.Value))

\* constant.BinaryOp for + and - on integers: exact
constantBinaryOp(op, x, y) ==
  LET yy == IF op = "-" THEN BigInt(~y.neg, y.mag) ELSE y IN
  IF x.neg = yy.neg THEN BigInt(x.neg, AddMag(x.mag, yy.mag))
  ELSE IF MagLess(x.mag, yy.mag) THEN BigInt(yy.neg, SubMag(yy.mag, x.mag))
  ELSE BigInt(x.neg, SubMag(x.mag, yy.mag))

\* the constant is kept as an int64 (otherwise as a big integer)
IsInt64(c) ==
  IF c.neg THEN ~MagLess([k \in 1..5 |-> IF k = 4 THEN 32768 ELSE 0], c.mag)
  ELSE c.mag[5] = 0 /\ c.mag[4] < 32768

\* constant.Int64Val: the int64 itself, or big.Int.Int64, the low 64 bits
\* of the magnitude negated for a negative number
Int64Val(c) == IF c.neg THEN Negate64(Low64(c.mag)) ELSE Low64(c.mag)

\* constant.Uint64Val: uint64(x) of an int64, or big.Int.Uint64, the low
\* 64 bits of the magnitude whatever the sign
Uint64Val(c) ==
  IF IsInt64(c) /\ c.neg THEN Negate64(Low64(c.mag)) ELSE Low64(c.mag)

ArithTokens == {"+", "-"}
ArithWords ==
  [1..4 -> {0, 32768, 65535}]
  \cup {<<n, 0, 0, 0>> : n \in {1, 5, 127, 128, 255, 32767}}
  \cup {<<n, 65535, 65535, 65535>> : n \in {65408, 65531}}
  \cup {<<1, 0, 0, 32768>>, <<5, 0, 0, 32768>>, <<65535, 65535, 65535, 32767>>}
ArithVars ==
  UNION {{[IntVar(t, w) EXCEPT !.faulty = f] :
            w \in {x \in ArithWords : IsValueOf(t, x)}, f \in BOOLEAN} :
         t \in IntTypes}
\* both operands have the type of the result
ArithInputs ==
  {in \in [op : ArithTokens, x : ArithVars, y : ArithVars] :
     in.x.Kind = in.y.Kind /\ in.x.size = in.y.size}

\* evalBinary on + or - and two integer variables of one type: the operand
\* stack and stack.err it leaves, the operands being popped
evalBinaryInt(op, xv, yv) ==
  IF xv.faulty \/ yv.faulty THEN [stack |-> <<>>, err |-> ErrUnreadable]
  ELSE LET rc == constantBinaryOp(op, ValueOf(xv), ValueOf(yv))
           n == IF xv.Kind = "Int" THEN Int64Val(rc) ELSE Uint64Val(rc)
       IN [stack |-> <<IntVar(IntType(xv.Kind, xv.size),
                              convertInt(n, xv.Kind = "Int", xv.size))>>,
           err |-> NoErr]

InitArith ==
  /\ IdleEval
  /\ pin \in ArithInputs
  /\ pout = <<>>
  /\ pcall = "none"

ExecBinaryInt ==
  /\ pcall = "none"
  /\ pout' = evalBinaryInt(pin.op, pin.x, pin.y)
  /\ pcall' = "Binary"
  /\ UNCHANGED <<evalCtl, opidx, stack, err, pin>>

NextArith == ExecBinaryInt

SpecArith == InitArith /\ [][NextArith]_vars

\* x + y in 64 bits, x - y in 64 bits
Add64(x, y) == Low64(AddMag(Mag(x), Mag(y)))
Wrapped(op, x, y) == IF op = "-" THEN Add64(x, Negate64(y)) ELSE Add64(x, y)

\* C33: x + y and x - y on readable integers of one sized type push the
\* exact result truncated to the width of the type, sign-extended for a
\* signed type and zero-extended for an unsigned one.
C33_BinaryWrapsAround ==
  (pcall = "Binary" /\ ~pin.x.faulty /\ ~pin.y.faulty) =>
    /\ pout.err = NoErr /\ Len(pout.stack) = 1
    /\ pout.stack[1].Kind = pin.x.Kind /\ pout.stack[1].size = pin.x.size
    /\ LET e == Wrapped(pin.op, pin.x.Value, pin.y.Value) IN
       LowBitsThen(pout.stack[1].Value, e, pin.x.size,
                   IF pin.x.Kind = "Int" THEN SignBit(e, pin.x.size) ELSE 0)

\* the results do wrap around for every type but the unsigned type of 8
\* bytes
NarrowerWrapsAround ==
  ~(pin.x.Kind = "Uint" /\ pin.x.size = 8) => C33_BinaryWrapsAround

\* ------------------------------------------------------ Evaluation Scope
\* The fields of an EvalScope that are not registers: g, threadID, Mem,
\* dictAddr, loadCfg; Regs stands for its PC and registers.
Scope(dictAddr, loadCfg) ==
  [g |-> 1, threadID |-> 1, Mem |-> "mem", dictAddr |-> dictAddr,
   loadCfg |-> loadCfg, Regs |-> InitRegs]
LoadConfigs == {"none", "cfg1", "cfg2"}
Scopes == {Scope(d, c) : d \in {0, 8192}, c \in LoadConfigs}

\* the entries visible in the scope: x, .dict holding 4096, and a .dict
\* that extractVarInfoFromEntry can not parse
ScopeEntries ==
  {VarEntry(<<"x">>, 1, 1, "Variable", FALSE, TRUE, 4096),
   VarEntry(goDictionaryName, 1, 1, "FormalParameter", FALSE, TRUE, 4096),
   VarEntry(goDictionaryName, 1, 2, "FormalParameter", FALSE, FALSE, 4096)}

\* dictFaulty: the dictionary variable is unreadable or its memory can not
\* be read; cfg: the LoadConfig given to EvalExpression
ScopeInputs ==
  [scope : Scopes, hasFn : BOOLEAN,
   entries : SeqsUpTo(ScopeEntries, MaxEntries), name : {<<"x">>},
   dictFaulty : BOOLEAN, cfg : {"cfg1", "cfg2"}]

\* faulty variant of lookForDictionary: the address is read again although
\* the scope has one
lookForDictionary_ReadsAgain(scope, in) ==
  LET dicts == {i \in DOMAIN in.entries : in.entries[i].name = goDictionaryName}
  IN IF dicts = {} THEN scope
     ELSE LET e == in.entries[FirstOf(dicts)] IN
          IF ~e.parses \/ in.dictFaulty THEN scope
          ELSE [scope EXCEPT !.dictAddr = e.ptrval]

\* Locals, "look for dictionary entry": the scope it leaves.  Only the
\* first entry named .dict is looked at; readUintRaw gives 0 with its
\* error.
lookForDictionary(scope, in) ==
  IF scope.dictAddr # 0 THEN scope
  ELSE LET dicts == {i \in DOMAIN in.entries :
                       in.entries[i].name = goDictionaryName}
       IN IF dicts = {} THEN scope
          ELSE LET e == in.entries[FirstOf(dicts)] IN
               IF ~e.parses \/ in.dictFaulty THEN scope
               ELSE [scope EXCEPT !.dictAddr = e.ptrval]

\* EvalScope.Locals: the scope it leaves and what it returns
LocalsOnScope(scope, in) ==
  [scope |-> IF in.hasFn THEN lookForDictionary(scope, in) ELSE scope,
   r |-> Locals([hasFn |-> in.hasFn, entries |-> in.entries, name |-> in.name])]

\* executeOp, case *evalop.PushThreadID
execPushThreadID(scope) ==
  [scope |-> scope, r |-> <<IntConst(scope.threadID)>>]

\* EvalExpression(expr, cfg) for the expression x: scope.loadCfg = &cfg,
\* then PushLocal x is executed
EvalExpression(scope, in) ==
  LocalsOnScope([scope EXCEPT !.loadCfg = in.cfg], in)

InitScope ==
  /\ IdleEval
  /\ pin \in ScopeInputs
  /\ pout = <<>>
  /\ pcall = "none"

\* a client lists the local variables, or the interpreter executes
\* PushLocal (frame 0), which lists them
CallLocalsOnScope ==
  /\ pcall = "none"
  /\ pout' = LocalsOnScope(pin.scope, pin)
  /\ \E c \in {"Locals", "PushLocal"} : pcall' = c
  /\ UNCHANGED <<evalCtl, opidx, stack, err, pin>>

\* the interpreter executes an opcode that only reads the scope
ExecPushThreadID ==
  /\ pcall = "none"
  /\ pout' = execPushThreadID(pin.scope)
  /\ pcall' = "PushThreadID"
  /\ UNCHANGED <<evalCtl, opidx, stack, err, pin>>

CallEvalExpression ==
  /\ pcall = "none"
  /\ pout' = EvalExpression(pin.scope, pin)
  /\ pcall' = "EvalExpression"
  /\ UNCHANGED <<evalCtl, opidx, stack, err, pin>>

NextScope == CallLocalsOnScope \/ ExecPushThreadID \/ CallEvalExpression

SpecScope == InitScope /\ [][NextScope]_vars

\* C34 as stated: Locals, PushLocal, EvalExpression and a pure opcode
\* leave the goroutine, the thread id, the memory accessor, the
\* dictionary address and the load configuration of the scope unchanged.
C34_ScopeImmutable ==
  pcall # "none" =>
    /\ pout.scope.g = pin.scope.g
    /\ pout.scope.threadID = pin.scope.threadID
    /\ pout.scope.Mem = pin.scope.Mem
    /\ pout.scope.dictAddr = pin.scope.dictAddr
    /\ pout.scope.loadCfg = pin.scope.loadCfg

\* C34 amended: they leave the goroutine, the thread id, the memory
\* accessor and the registers unchanged; the dictionary address changes
\* only when it was 0 and Locals (also under PushLocal and EvalExpression)
\* read the first .dict entry of the scope, whose value it then holds; the
\* load configuration changes only under EvalExpression, to the one given.
C34_ScopeFrame ==
  pcall # "none" =>
    /\ pout.scope.g = pin.scope.g
    /\ pout.scope.threadID = pin.scope.threadID
    /\ pout.scope.Mem = pin.scope.Mem
    /\ pout.scope.Regs = pin.scope.Regs
    /\ pout.scope.loadCfg =
         IF pcall = "EvalExpression" THEN pin.cfg ELSE pin.scope.loadCfg
    /\ pout.scope.dictAddr # pin.scope.dictAddr =>
         /\ pin.scope.dictAddr = 0 /\ pcall # "PushThreadID"
         /\ pin.hasFn /\ ~pin.dictFaulty
         /\ \E i \in DOMAIN pin.entries :
              /\ pin.entries[i].name = goDictionaryName
              /\ pin.entries[i].parses
              /\ pout.scope.dictAddr = pin.entries[i].ptrval
              /\ \A j \in 1..(i - 1) : pin.entries[j].name # goDictionaryName

\* C34 witness: PushLocal x in a scope without a dictionary address found
\* the .dict entry after x; the scope holds its value from then on.
C34_Witness ==
  /\ pcall = "PushLocal" /\ pin.scope.dictAddr = 0
  /\ Len(pin.entries) = 2 /\ pin.entries[1].name = <<"x">>
  /\ pout.scope.dictAddr = 4096 /\ pout.scope.loadCfg = pin.scope.loadCfg
  /\ Len(pout.r.vars) = 1

\* ------------------------------------------------- Variable.findMethod
\* the longest list of embedded fields of the type searched
MaxEmbedded == 2

\* The types of the target; the search starts on a struct of type A.
TypeNames == {"A", "B", "C", "D"}
\* an embedded field: its type is typ, or a pointer to typ
Field(typ, isptr) == [typ |-> typ, isptr |-> isptr]
\* A embeds any of these, in any order; B, C and D embed at most one
\* field; A through *A, C through *C, and B and D through each other are
\* recursive
EmbeddedIn ==
  [A : SeqsUpTo({Field("A", TRUE), Field("B", FALSE), Field("C", FALSE),
                 Field("C", TRUE), Field("D", FALSE)}, MaxEmbedded),
   B : {<<>>, <<Field("D", FALSE)>>, <<Field("A", TRUE)>>},
   C : {<<>>, <<Field("C", TRUE)>>, <<Field("D", FALSE)>>},
   D : {<<>>, <<Field("B", TRUE)>>}]
\* decl: the types that declare the method; ptrRecv: with a pointer
\* receiver; ptrs: what reading an embedded pointer gives
MethodInputs ==
  [emb : EmbeddedIn, decl : SUBSET TypeNames, ptrRecv : BOOLEAN,
   ptrs : {"ok", "nil", "bad"}]

\* the result of findMethod, with the trace of the search: the type whose
\* method was found and its embedding depth, the type names added to seen
\* in order, and the number of iterations of the loop
MethodResult(status, at, depth, recv, expanded, steps) ==
  [status |-> status, at |-> at, depth |-> depth, recv |-> recv,
   expanded |-> expanded, steps |-> steps]

\* the Variables toField gives for the embedded fields of a struct
Embedded(in, v) ==
  [i \in 1..Len(in.emb[v.typ]) |->
     [typ |-> in.emb[v.typ][i].typ, isptr |-> in.emb[v.typ][i].isptr,
      depth |-> v.depth + 1]]

\* faulty variant of the loop: the queue is used as a stack
RECURSIVE findMethodLoop_Lifo(_, _, _, _, _)
findMethodLoop_Lifo(in, queue, seen, expanded, steps) ==
  IF queue = <<>> THEN MethodResult("none", "", 0, "", expanded, steps)
  ELSE LET v == Head(queue)
           name == <<v.typ, v.isptr>>
       IN IF name \in seen
          THEN findMethodLoop_Lifo(in, Tail(queue), seen, expanded, steps + 1)
          ELSE IF v.typ \in in.decl
          THEN MethodResult("found", v.typ, v.depth, "v",
                            Append(expanded, name), steps + 1)
          ELSE IF v.isptr /\ in.ptrs = "bad"
          THEN MethodResult("unreadable", v.typ, v.depth, "",
                            Append(expanded, name), steps + 1)
          ELSE IF v.isptr /\ in.ptrs = "nil" /\ in.emb[v.typ] # <<>>
          THEN MethodResult("error", v.typ, v.depth, "",
                            Append(expanded, name), steps + 1)
          ELSE findMethodLoop_Lifo(in, Embedded(in, v) \o Tail(queue),
                                   seen \cup {name}, Append(expanded, name),
                                   steps + 1)

\* findMethod, the loop over the queue.  seen holds RealType.String() of
\* the Variables expanded: the name of a pointer type differs from the
\* name of its element type.
RECURSIVE findMethodLoop(_, _, _, _, _)
findMethodLoop(in, queue, seen, expanded, steps) ==
  IF queue = <<>> THEN MethodResult("none", "", 0, "", expanded, steps)
  ELSE LET v == Head(queue)
           name == <<v.typ, v.isptr>>
       IN IF name \in seen
          THEN findMethodLoop(in, Tail(queue), seen, expanded, steps + 1)
          ELSE IF v.typ \in in.decl /\ ~in.ptrRecv
          THEN MethodResult("found", v.typ, v.depth,
                            IF v.isptr THEN "maybeDereference" ELSE "v",
                            Append(expanded, name), steps + 1)
          ELSE IF v.typ \in in.decl
          THEN MethodResult("found", v.typ, v.depth,
                            IF v.isptr THEN "v" ELSE "pointerToVariable",
                            Append(expanded, name), steps + 1)
          \* structVar := v.maybeDereference() can not be read
          ELSE IF v.isptr /\ in.ptrs = "bad"
          THEN MethodResult("unreadable", v.typ, v.depth, "",
                            Append(expanded, name), steps + 1)
          \* structVar.toField(field) on a struct at address 0
          ELSE IF v.isptr /\ in.ptrs = "nil" /\ in.emb[v.typ] # <<>>
          THEN MethodResult("error", v.typ, v.depth, "",
                            Append(expanded, name), steps + 1)
          ELSE findMethodLoop(in, Tail(queue) \o Embedded(in, v),
                              seen \cup {name}, Append(expanded, name),
                              steps + 1)

\* Variable.findMethod on a struct Variable of type A
findMethod(in) ==
  findMethodLoop(in, <<[typ |-> "A", isptr |-> FALSE, depth |-> 0]>>, {},
                 <<>>, 0)

InitMethod ==
  /\ IdleEval
  /\ pin \in MethodInputs
  /\ pout = <<>>
  /\ pcall = "none"

CallFindMethod ==
  /\ pcall = "none"
  /\ pout' = findMethod(pin)
  /\ pcall' = "findMethod"
  /\ UNCHANGED <<evalCtl, opidx, stack, err, pin>>

NextMethod == CallFindMethod

SpecMethod == InitMethod /\ [][NextMethod]_vars

\* the types at embedding depth at most k of A
RECURSIVE Within(_)
Within(k) ==
  IF k = 0 THEN {"A"}
  ELSE Within(k - 1) \cup
       UNION {{pin.emb[t][i].typ : i \in DOMAIN pin.emb[t]} : t \in Within(k - 1)}
Reachable == Within(Cardinality(TypeNames))
\* the least embedding depth of a type that declares the method
MinDepth ==
  CHOOSE k \in 0..Cardinality(TypeNames) :
    /\ Within(k) \cap pin.decl # {}
    /\ \A j \in 0..(k - 1) : Within(j) \cap pin.decl = {}

\* the search ends, and expands no type name twice
SearchIsFinite ==
  /\ \A i, j \in DOMAIN pout.expanded : i # j => pout.expanded[i] # pout.expanded[j]
  /\ pout.steps <= 1 + Len(pout.expanded) * MaxEmbedded
\* the method found is the one of least embedding depth
ShallowestFirst ==
  pout.status = "found" => pout.at \in pin.decl /\ pout.depth = MinDepth

\* C35 as stated: the search ends on every embedding graph, expanding no
\* type name twice; the method found is one of least embedding depth; and
\* when no type of the graph declares the method the result is no method
\* and no error.
C35_SearchAlwaysReportsNoMethod ==
  pcall = "findMethod" =>
    /\ SearchIsFinite
    /\ ShallowestFirst
    /\ Reachable \cap pin.decl = {} => pout.status = "none"

\* C35 amended: the search ends on every embedding graph, expanding no
\* type name twice, and the method found is one of least embedding depth;
\* when every embedded pointer met can be read and is not nil, the method
\* is found exactly when a type of the graph declares it and the result
\* is no method and no error otherwise; the search ends otherwise than by
\* a method or no method only on a pointer that can not be read, or on a
\* nil pointer to a struct with embedded fields.
C35_SearchTerminates ==
  pcall = "findMethod" =>
    /\ SearchIsFinite
    /\ ShallowestFirst
    /\ pin.ptrs = "ok" =>
         pout.status = IF Reachable \cap pin.decl = {} THEN "none" ELSE "found"
    /\ pout.status = "unreadable" =>
         pin.ptrs = "bad" /\ <<pout.at, TRUE>> = pout.expanded[Len(pout.expanded)]
    /\ pout.status = "error" =>
         /\ pin.ptrs = "nil" /\ pin.emb[pout.at] # <<>>
         /\ <<pout.at, TRUE>> = pout.expanded[Len(pout.expanded)]

\* C35 witness: A embeds *A and B, B embeds D and D embeds *B; no type
\* declares the method; the search expanded A, *A, B, D and *B, each
\* once, and reported no method.
C35_Witness ==
  /\ pcall = "findMethod" /\ pin.decl = {} /\ pin.ptrs = "ok"
  /\ pin.emb.A = <<Field("A", TRUE), Field("B", FALSE)>>
  /\ pin.emb.B = <<Field("D", FALSE)>> /\ pin.emb.D = <<Field("B", TRUE)>>
  /\ pout.status = "none"
  /\ pout.expanded = <<<<"A", FALSE>>, <<"A", TRUE>>, <<"B", FALSE>>,
                       <<"D", FALSE>>, <<"B", TRUE>>>>

\* ------------------------------------------ Operator Engine: evalAddrOf
\* An operand of &x; type is "" when it has no DwarfType
AddrOfVar(kind, addr, type, onlyAddr) ==
  [Kind |-> kind, Addr |-> addr, type |-> type, OnlyAddr |-> onlyAddr]
AddrOfInputs ==
  {AddrOfVar(k, a, t, o) :
     k \in {"Int", "String", "Struct", "Ptr"}, a \in PtrAddrs,
     t \in ElemTypes \cup {""}, o \in BOOLEAN}

ErrCanNotTakeAddress == <<"can not take address of">>

\* faulty variant of pointerToVariable: the pointer gets no child
pointerToVariable_LosesChild(v) ==
  DerefVar("Ptr", FALSE, 0, v.type, 0, 0, FALSE, 0, FALSE)

\* Variable.pointerToVariable: a loaded pointer stored nowhere, whose one
\* child is v marked OnlyAddr
pointerToVariable(v) ==
  DerefVar("Ptr", FALSE, 0, v.type, 1, v.Addr, TRUE, 0, FALSE)

\* EvalScope.evalAddrOf, xev being the popped operand
evalAddrOf(xev) ==
  IF xev.Addr = 0 \/ xev.type = ""
  THEN [stack |-> <<>>, err |-> ErrCanNotTakeAddress]
  ELSE [stack |-> <<pointerToVariable(xev)>>, err |-> NoErr]

InitAddrOf ==
  /\ IdleEval
  /\ pin \in AddrOfInputs
  /\ pout = <<>>
  /\ pcall = "none"

\* the interpreter executes the opcode AddrOf on the operand pin
ExecAddrOf ==
  /\ pcall = "none"
  /\ pout' = evalAddrOf(pin)
  /\ pcall' = "evalAddrOf"
  /\ UNCHANGED <<evalCtl, opidx, stack, err, pin>>

\* no error is set: the next opcode, PointerDeref, pops the pointer
ExecDerefOfAddrOf ==
  /\ pcall = "evalAddrOf" /\ pout.err = NoErr
  /\ pout' = evalPointerDeref(pout.stack[1])
  /\ pcall' = "evalPointerDeref"
  /\ UNCHANGED <<evalCtl, opidx, stack, err, pin>>

NextAddrOf == ExecAddrOf \/ ExecDerefOfAddrOf

SpecAddrOf == InitAddrOf /\ [][NextAddrOf]_vars

\* C36: &x on a Value with address 0 or without a type sets "can not take
\* address" and pushes nothing; on any other Value it pushes a pointer to
\* the type of x whose child is marked address-only, and * on that
\* pointer pushes a Value with the address and the type of x and the
\* mark cleared.
C36_AddrOfDerefRoundTrip ==
  /\ pcall = "evalAddrOf" =>
       IF pin.Addr = 0 \/ pin.type = ""
       THEN pout = [stack |-> <<>>, err |-> ErrCanNotTakeAddress]
       ELSE /\ pout.err = NoErr /\ Len(pout.stack) = 1
            /\ pout.stack[1].Kind = "Ptr" /\ pout.stack[1].elem = pin.type
            /\ pout.stack[1].OnlyAddr
  /\ pcall = "evalPointerDeref" =>
       /\ pin.Addr # 0 /\ pin.type # ""
       /\ pout = [stack |-> <<[Addr |-> pin.Addr, type |-> pin.type,
                               OnlyAddr |-> FALSE]>>,
                  err |-> NoErr]

\* C36 witness: *&x for a struct x at 8192 that was not address-only.
C36_Witness ==
  /\ pcall = "evalPointerDeref" /\ pin.Kind = "Struct" /\ pin.Addr = 8192
  /\ pin.type = "struct" /\ ~pin.OnlyAddr
  /\ pout.err = NoErr /\ pout.stack[1].Addr = 8192

\* ------------------------------------ compareOp: == against !=
\* A loaded pointer, array, struct or interface.  Len: the number of
\* elements or fields of its type; Children: the ones that were loaded
CompositeVar(kind, type, len, children) ==
  [CmpVar(kind, type, FALSE, <<>>, 0, 4096, FALSE, FALSE)
     EXCEPT !.Len = len, !.loaded = TRUE] @@ [Children |-> children]
\* a loaded int
IntChild(n) ==
  loadValueCmp(CmpVar("Int", "int", FALSE, <<>>, n, 0, FALSE, FALSE), MaxStringLen)
\* the data of an interface: a Value with its dynamic type
IfaceChild(v, realType) == v @@ [RealType |-> realType, Addr |-> 4096]

\* the children loaded of a type with two int elements: both, or the
\* first only (the Value was loaded before, with a lower limit)
IntChildren ==
  {<<IntChild(a), IntChild(b)>> : a, b \in {1, 2}}
  \cup {<<IntChild(a)>> : a \in {1, 2}}

EqVars ==
  {v \in CmpVars : v.Kind \in {"Int", "Slice", "nil"} /\ ~v.faulty}
  \cup {CmpVar("String", "string", FALSE, m, 0, 4096, FALSE, FALSE) :
          m \in CmpStrings}
  \cup {CompositeVar("Ptr", "*int", 0, <<[Addr |-> a, Kind |-> "Int"]>>) :
          a \in PtrAddrs}
  \cup {CompositeVar(k[1], k[2], 2, c) :
          k \in {<<"Array", "[2]int">>, <<"Struct", "main.S">>},
          c \in IntChildren}
  \cup {CompositeVar("Interface", "interface {}", 0, <<c>>) :
          c \in {IfaceChild(IntChild(1), "int"), IfaceChild(IntChild(2), "int"),
                 IfaceChild(IntChild(1), "main.T")}}

\* the pairs evalBinary hands to compareOp: they passed negotiateType
EqInputs ==
  {in \in [x : EqVars, y : EqVars] : negotiateType("==", in.x, in.y) = NoErr}

\* compareOp on all kinds, and equalChildren from child i on
RECURSIVE compareOpAll(_, _, _)
RECURSIVE equalChildren(_, _, _, _, _)
equalChildren(xv, yv, shortcircuit, i, r) ==
  IF i > Len(xv.Children) THEN [v |-> r, err |-> NoErr]
  ELSE LET c == compareOpAll("==", xv.Children[i], yv.Children[i]) IN
       IF c.err # NoErr THEN [v |-> FALSE, err |-> c.err]
       ELSE IF ~(r /\ c.v) /\ shortcircuit THEN [v |-> FALSE, err |-> NoErr]
       ELSE equalChildren(xv, yv, shortcircuit, i + 1, r /\ c.v)

compareOpAll(op, xv, yv) ==
  IF \/ xv.Kind \notin {"Ptr", "Array", "Struct", "Interface"}
     \/ op \notin {"==", "!="} \/ xv = nilVariable \/ yv = nilVariable
  THEN compareOp(op, xv, yv)
  ELSE LET e ==
         CASE xv.Kind = "Ptr" ->
                [v |-> xv.Children[1].Addr = yv.Children[1].Addr, err |-> NoErr,
                 ret |-> FALSE]
           [] xv.Kind = "Array" ->
                IF Len(xv.Children) # xv.Len \/ Len(yv.Children) # yv.Len
                THEN [v |-> FALSE, err |-> <<"array too long for comparison">>,
                      ret |-> TRUE]
                ELSE equalChildren(xv, yv, TRUE, 1, TRUE) @@ [ret |-> FALSE]
           [] xv.Kind = "Struct" ->
                \* return false, nil: whatever the operator
                IF Len(xv.Children) # Len(yv.Children)
                THEN [v |-> FALSE, err |-> NoErr, ret |-> TRUE]
                ELSE IF Len(xv.Children) # xv.Len \/ Len(yv.Children) # yv.Len
                THEN [v |-> FALSE, err |-> <<"structure too deep for comparison">>,
                      ret |-> TRUE]
                ELSE equalChildren(xv, yv, FALSE, 1, TRUE) @@ [ret |-> FALSE]
           [] OTHER ->
                IF xv.Children[1].RealType # yv.Children[1].RealType
                THEN [v |-> FALSE, err |-> NoErr, ret |-> FALSE]
                ELSE LET c == compareOpAll("==", xv.Children[1], yv.Children[1])
                     IN [v |-> c.v, err |-> c.err, ret |-> FALSE]
       IN IF e.ret THEN CmpResult(e.v, e.err, xv, yv)
          ELSE CmpResult(IF op = "!=" THEN ~e.v ELSE e.v, e.err, xv, yv)

InitEquality ==
  /\ IdleEval
  /\ pin \in EqInputs
  /\ pout = <<>>
  /\ pcall = "none"

\* x == y is evaluated
CompareEQL ==
  /\ pcall = "none"
  /\ pout' = [eq |-> compareOpAll("==", loadValueCmp(pin.x, MaxStringLen),
                                  loadValueCmp(pin.y, MaxStringLen))]
  /\ pcall' = "EQL"
  /\ UNCHANGED <<evalCtl, opidx, stack, err, pin>>

\* x != y is evaluated on the same Values
CompareNEQ ==
  /\ pcall = "EQL"
  /\ pout' = [eq |-> pout.eq,
              ne |-> compareOpAll("!=", pout.eq.xv, pout.eq.yv)]
  /\ pcall' = "NEQ"
  /\ UNCHANGED <<evalCtl, opidx, stack, err, pin>>

NextEquality == CompareEQL \/ CompareNEQ

SpecEquality == InitEquality /\ [][NextEquality]_vars

\* C37: when compareOp succeeds on a pair of operands both for == and for
\* !=, the result for != is the negation of the result for ==.
C37_NeqNegatesEql ==
  (pcall = "NEQ" /\ pout.eq.err = NoErr /\ pout.ne.err = NoErr) =>
    pout.ne.v = ~pout.eq.v

\* the two results are each other's negation for all operands but two
\* structs with different numbers of loaded fields
NeqNegatesEqlButStructs ==
  ~(pin.x.Kind = "Struct" /\ pin.y.Kind = "Struct"
      /\ Len(pin.x.Children) # Len(pin.y.Children)) => C37_NeqNegatesEql

\* ------------------------------------------------------- ChanGoroutines
\* the number of sudog records in the target, and the largest start and
\* count asked for
MaxWaiters == 3
MaxCount == 2

\* A sudog is named by its address 1..MaxWaiters, 0 being nil; the
\* goroutine it holds has the id GoidOf(address).  next: the next links,
\* which may form a cycle; recvq, sendq: the first pointers of the two
\* wait queues.  bad: a sudog whose g.goid member is missing ("nogoid") or
\* can not be read ("unreadable"), or whose next member is missing
\* ("nonext"); 0 when there is none
Sudogs == 1..MaxWaiters
GoidOf(q) == 100 + q
ChanInputs ==
  [isChan : BOOLEAN, next : [Sudogs -> 0..MaxWaiters], recvq : {0, 1},
   sendq : {0, MaxWaiters}, start : 0..MaxCount, count : 0..MaxCount,
   bad : {0, 1}, badKind : {"nogoid", "unreadable", "nonext"}]

WaitqResult(goids, start, e, steps) ==
  [goids |-> goids, start |-> start, err |-> e, steps |-> steps]

\* waitqToGoIDSlice, the loop from the sudog qvar on: goids and start as
\* it leaves them, the error it returns, and the number of iterations
RECURSIVE waitqToGoIDSlice(_, _, _, _, _)
waitqToGoIDSlice(in, qvar, goids, start, steps) ==
  IF qvar = 0 THEN WaitqResult(goids, start, NoErr, steps)
  ELSE IF Len(goids) > in.count THEN WaitqResult(goids, start, NoErr, steps)
  ELSE IF in.bad = qvar /\ in.badKind = "nogoid"
  THEN WaitqResult(goids, start, NoErr, steps)
  ELSE IF in.bad = qvar /\ in.badKind = "unreadable"
  THEN WaitqResult(goids, start, ErrUnreadable, steps)
  ELSE LET goids2 == IF start > 0 THEN goids ELSE Append(goids, GoidOf(qvar))
           start2 == IF start > 0 THEN start - 1 ELSE start
       IN IF in.bad = qvar /\ in.badKind = "nonext"
          THEN WaitqResult(goids2, start2, <<"has no member next">>, steps)
          ELSE waitqToGoIDSlice(in, in.next[qvar], goids2, start2, steps + 1)

\* EvalScope.ChanGoroutines, the expression being evaluated
ChanGoroutines(in) ==
  IF ~in.isChan THEN [goids |-> <<>>, err |-> NoErr, steps |-> 0]
  ELSE LET r == waitqToGoIDSlice(in, in.recvq, <<>>, in.start, 0) IN
       IF r.err # NoErr
       THEN [goids |-> <<>>, err |-> r.err, steps |-> r.steps]
       ELSE LET w == waitqToGoIDSlice(in, in.sendq, r.goids, r.start, r.steps)
            IN IF w.err # NoErr
               THEN [goids |-> <<>>, err |-> w.err, steps |-> w.steps]
               ELSE [goids |-> w.goids, err |-> NoErr, steps |-> w.steps]

InitChan ==
  /\ IdleEval
  /\ pin \in ChanInputs
  /\ pout = <<>>
  /\ pcall = "none"

CallChanGoroutines ==
  /\ pcall = "none"
  /\ pout' = ChanGoroutines(pin)
  /\ pcall' = "ChanGoroutines"
  /\ UNCHANGED <<evalCtl, opidx, stack, err, pin>>

NextChan == CallChanGoroutines

SpecChan == InitChan /\ [][NextChan]_vars

\* the first k goroutines of the queue that starts at q
RECURSIVE Waiting(_, _)
Waiting(q, k) ==
  IF q = 0 \/ k = 0 THEN <<>>
  ELSE <<GoidOf(q)>> \o Waiting(pin.next[q], k - 1)
\* the goroutines waiting on the channel, receivers first, as far as
\* start and count can reach
AllWaiting ==
  LET k == pin.start + pin.count + 2
      r == Waiting(pin.recvq, k)
  IN IF Len(r) = k THEN r ELSE r \o Waiting(pin.sendq, k)
\* s without its first n elements, cut to at most m elements
Window(sq, n, m) ==
  IF Len(sq) <= n THEN <<>>
  ELSE SubSeq(sq, n + 1, IF Len(sq) < n + m THEN Len(sq) ELSE n + m)

\* C38: on a channel whose sudogs can all be read, ChanGoroutines returns
\* the goroutines waiting on it, receivers first and senders after them,
\* without the first start of them and at most count of them, after a
\* number of steps bounded by start and count, whatever the next links.
C38_AtMostCount ==
  (pcall = "ChanGoroutines" /\ pin.isChan /\ pin.bad = 0) =>
    /\ pout.err = NoErr
    /\ pout.steps <= pin.start + pin.count + 1
    /\ Len(pout.goids) <= pin.count
    /\ pout.goids = Window(AllWaiting, pin.start, pin.count)

\* what it returns instead: at most count + 1 of them
ReturnsCountPlusOne ==
  (pcall = "ChanGoroutines" /\ pin.isChan /\ pin.bad = 0) =>
    /\ pout.err = NoErr
    /\ pout.steps <= pin.start + pin.count + 1
    /\ pout.goids = Window(AllWaiting, pin.start, pin.count + 1)

====
